---- MODULE Spec2Model ----
(***************************************************************************)
(* Model of the layer graph engine (modules/dnn/src/dnn.cpp) and of the    *)
(* Torch container importer (modules/dnn/src/torch/torch_importer.cpp).    *)
(*                                                                         *)
(* A network (Net::Impl) is a record; every public operation of Net is an  *)
(* operator from a network to an outcome [impl, status, value], where      *)
(* status is "ok" (the call returned), "error" (a cv::Exception left the   *)
(* call; the changes made before the throw stay) or "crash" (the process   *)
(* died: unbounded recursion, or undefined behaviour taking that course).  *)
(* Undefined behaviour takes its outcome from a parameter ub that the      *)
(* calling action chooses: the process dies (ub.crash), or the garbage     *)
(* value ub.garbage is read and the call goes on.                          *)
(***************************************************************************)
EXTENDS Integers, Sequences, FiniteSets, TLC

VARIABLES impl, ret, calls, addedIds, rootModule, importer, parser

vars == <<impl, ret, calls, addedIds, rootModule, importer, parser>>

----------------------------------------------------------------------------
(* Bounds of the model *)

\* number of layers addLayer may create in one run of the network API
MaxLayers == 2
\* number of API calls in one run of the network API
MaxCalls == 5
\* number of calls in a run that only builds the graph
MaxGraphCalls == 4

----------------------------------------------------------------------------
(* Generic helpers *)

\* a local variable: the value v under the name the expression In takes it by
Let(v, In(_)) == In(v)

Max(a, b) == IF a >= b THEN a ELSE b

MinOf(S) == CHOOSE x \in S : \A y \in S : x <= y

\* the elements of a finite set of integers in increasing order
\* (iteration order of std::map / std::set)
RECURSIVE SortedSeq(_)
SortedSeq(S) == IF S = {} THEN <<>>
                ELSE LET m == MinOf(S) IN <<m>> \o SortedSeq(S \ {m})

Range(s) == {s[i] : i \in DOMAIN s}

----------------------------------------------------------------------------
(* Names: a name is a sequence of characters (tokens) *)

HasDot(name) == \E i \in DOMAIN name : name[i] = "."

InputName == <<"_input">>

----------------------------------------------------------------------------
(* LayerPin *)

LayerPin(layerId, outputId) == [lid |-> layerId, oid |-> outputId]

DefaultPin == LayerPin(-1, -1)

valid(pin) == pin.lid >= 0 /\ pin.oid >= 0

equal(pin, r) == pin.lid = r.lid /\ pin.oid = r.oid

----------------------------------------------------------------------------
(* Tensors: a Mat is its shape and the identity of its storage (0: none) *)

EmptyMat == [shape |-> <<>>, data |-> 0]

RECURSIVE total(_)
total(shape) == IF shape = <<>> THEN 0
                ELSE IF Len(shape) = 1 THEN shape[1]
                ELSE shape[1] * total(Tail(shape))

----------------------------------------------------------------------------
(* LayerData and Net::Impl *)

LayerData(id, name, type, params) ==
    [id |-> id, name |-> name, type |-> type, params |-> params,
     inputBlobsId |-> <<>>, inputLayersId |-> {}, requiredOutputs |-> {},
     layerInstance |-> FALSE, outputBlobs |-> <<>>, inputBlobs |-> <<>>,
     flag |-> 0]

NetInputType == "__NetInputLayer__"

\* a LayerParams dictionary: a function from keys to values
NoParams == [k \in {} |-> 0]

\* Net::Impl::Impl()
NewImpl ==
    [layers |-> (0 :> [LayerData(0, InputName, NetInputType, NoParams)
                          EXCEPT !.layerInstance = TRUE]),
     layerNameToId |-> (InputName :> 0),
     lastLayerId |-> 1,
     netWasAllocated |-> FALSE,
     netOutputs |-> <<>>]

Outcome(n, status, value) == [impl |-> n, status |-> status, value |-> value]

getLayerId(n, layerName) ==
    IF layerName \in DOMAIN n.layerNameToId THEN n.layerNameToId[layerName] ELSE -1

hasLayer(n, id) == id \in DOMAIN n.layers

PutLayer(n, id, ld) ==
    [n EXCEPT !.layers = [i \in DOMAIN n.layers \cup {id} |->
                             IF i = id THEN ld ELSE n.layers[i]]]

\* addLayer without the lookup of the name among the names in use
addLayer_NoNameLookup(n, name, type, params) ==
    IF HasDot(name) THEN Outcome(n, "error", -1)
    ELSE LET id == n.lastLayerId + 1
             n1 == [n EXCEPT !.lastLayerId = id,
                             !.layerNameToId = [k \in DOMAIN n.layerNameToId \cup {name} |->
                                  IF k = name THEN id ELSE n.layerNameToId[k]]]
         IN Outcome(PutLayer(n1, id, LayerData(id, name, type, params)), "ok", id)

\* Net::addLayer
addLayer(n, name, type, params) ==
    IF HasDot(name) THEN Outcome(n, "error", -1)
    ELSE IF getLayerId(n, name) >= 0 THEN Outcome(n, "error", -1)
    ELSE LET id == n.lastLayerId + 1
             n1 == [n EXCEPT !.lastLayerId = id,
                             !.layerNameToId = [k \in DOMAIN n.layerNameToId \cup {name} |->
                                  IF k \in DOMAIN n.layerNameToId
                                  THEN n.layerNameToId[k] ELSE id]]
         IN Outcome(PutLayer(n1, id, LayerData(id, name, type, params)), "ok", id)

\* addLayerInput that binds the slot whatever it holds
addLayerInput_Overwrite(ld, inNum, from) ==
    [status |-> "ok",
     pins |-> [i \in 1..Max(inNum + 1, Len(ld.inputBlobsId)) |->
                  IF i = inNum + 1 THEN from
                  ELSE IF i <= Len(ld.inputBlobsId) THEN ld.inputBlobsId[i]
                  ELSE DefaultPin]]

\* addLayerInput that refuses every slot holding a valid pin, the same pin included
addLayerInput_RejectSame(ld, inNum, from) ==
    IF Len(ld.inputBlobsId) > inNum /\ valid(ld.inputBlobsId[inNum + 1])
    THEN [status |-> "error", pins |-> ld.inputBlobsId]
    ELSE [status |-> "ok",
          pins |-> [i \in 1..Max(inNum + 1, Len(ld.inputBlobsId)) |->
                       IF i = inNum + 1 THEN from
                       ELSE IF i <= Len(ld.inputBlobsId) THEN ld.inputBlobsId[i]
                       ELSE DefaultPin]]

\* Net::Impl::addLayerInput: the consumer's pin list after the call, or
\* "error" when the slot is bound to another valid pin
addLayerInput(ld, inNum, from) ==
    IF Len(ld.inputBlobsId) <= inNum
    THEN [status |-> "ok",
          pins |-> [i \in 1..(inNum + 1) |->
                       IF i = inNum + 1 THEN from
                       ELSE IF i <= Len(ld.inputBlobsId) THEN ld.inputBlobsId[i]
                       ELSE DefaultPin]]
    ELSE LET storedFrom == ld.inputBlobsId[inNum + 1]
         IN IF valid(storedFrom) /\ ~equal(storedFrom, from)
            THEN [status |-> "error", pins |-> ld.inputBlobsId]
            ELSE [status |-> "ok",
                  pins |-> [ld.inputBlobsId EXCEPT ![inNum + 1] = from]]

\* Net::Impl::connect (with the getLayerData lookups that throw)
connect(n, outLayerId, outNum, inLayerId, inNum) ==
    IF ~hasLayer(n, outLayerId) \/ ~hasLayer(n, inLayerId)
    THEN Outcome(n, "error", -1)
    ELSE LET r == addLayerInput(n.layers[inLayerId], inNum, LayerPin(outLayerId, outNum))
         IN IF r.status = "error" THEN Outcome(n, "error", -1)
            ELSE LET n1 == [n EXCEPT !.layers[inLayerId].inputBlobsId = r.pins]
                     n2 == [n1 EXCEPT !.layers[outLayerId].requiredOutputs = @ \cup {outNum}]
                 IN Outcome(n2, "ok", 0)

\* Net::addLayerToPrev
addLayerToPrev(n, name, type, params) ==
    LET prvLid == n.lastLayerId
        a == addLayer(n, name, type, params)
    IN IF a.status # "ok" THEN a
       ELSE LET c == connect(a.impl, prvLid, 0, a.value, 0)
            IN Outcome(c.impl, c.status, a.value)

\* Net::getUnconnectedOutLayers
getUnconnectedOutLayers(n) ==
    SortedSeq({lid \in DOMAIN n.layers : n.layers[lid].requiredOutputs = {}})

----------------------------------------------------------------------------
(* Layer instances and the layer factory *)

\* the types the layer factory has a constructor for: "Identity" keeps the
\* base class' getMemoryShapes, "ReLU" is an element-wise layer that asks
\* to work in place
RegisteredTypes == {"Identity", "ReLU"}

InPlaceTypes == {"ReLU"}

\* LayerData::getLayerInstance: the layer with its instance, or "error"
getLayerInstance(ld) ==
    IF ld.layerInstance THEN [status |-> "ok", ld |-> ld]
    ELSE IF ld.type \in RegisteredTypes
         THEN [status |-> "ok", ld |-> [ld EXCEPT !.layerInstance = TRUE]]
         ELSE [status |-> "error", ld |-> ld]

\* Layer::getMemoryShapes: outputs.assign(max(requiredOutputs, inputs.size()), inputs[0])
BaseOutputs(inputs, requiredOutputs) ==
    [i \in 1..Max(requiredOutputs, Len(inputs)) |-> inputs[1]]

getMemoryShapes(type, inputs, requiredOutputs) ==
    IF Len(inputs) = 0 THEN [status |-> "error", out |-> <<>>, inplace |-> FALSE]
    ELSE [status |-> "ok", out |-> BaseOutputs(inputs, requiredOutputs), inplace |-> FALSE]

\* an element-wise layer: the shapes of the base class, and inplace = true
getMemoryShapesInPlace(type, inputs, requiredOutputs) ==
    [getMemoryShapes(type, inputs, requiredOutputs) EXCEPT !.inplace = (Len(inputs) > 0)]

\* virtual dispatch of getMemoryShapes on the layer's type
shapeInference(type, inputs, requiredOutputs) ==
    IF type \in InPlaceTypes THEN getMemoryShapesInPlace(type, inputs, requiredOutputs)
    ELSE getMemoryShapes(type, inputs, requiredOutputs)

----------------------------------------------------------------------------
(* Shape inference: Net::Impl::getLayerShapesRecursively, getLayersShapes *)

LayerShapes == [in |-> <<>>, out |-> <<>>, inplace |-> FALSE]

\* std::map::operator[] : the entry, default-constructed when missing
MapGet(m, k, dflt) == IF k \in DOMAIN m THEN m[k] ELSE dflt

MapPut(m, k, v) == [i \in DOMAIN m \cup {k} |-> IF i = k THEN v ELSE m[i]]

\* layers[id] on the std::map: a default LayerData appears when id is missing
TouchLayer(n, id) ==
    IF hasLayer(n, id) THEN n ELSE PutLayer(n, id, LayerData(id, <<>>, "", NoParams))

RECURSIVE getLayerShapesRecursively(_, _, _, _)
RECURSIVE CollectInputShapes(_, _, _, _, _)

\* one pin of the loop: the shape of output oid of layerId becomes an input shape of id
PushInputShape(s, id, layerId, oid, ub) ==
    Let(MapGet(s.m, layerId, LayerShapes).out, LAMBDA out :
    Let(oid >= 0 /\ oid < Len(out), LAMBDA inBounds :
      IF ~inBounds /\ ub.crash THEN [s EXCEPT !.status = "crash"]
      ELSE Let(MapGet(s.m, id, LayerShapes), LAMBDA cur :
             [s EXCEPT !.m = MapPut(s.m, id,
                 [cur EXCEPT !.in = Append(cur.in,
                                     IF inBounds THEN out[oid + 1] ELSE ub.garbage)])])))

\* the loop over the input pins of layer id, from pin i on; s = [n, m, status]
CollectInputShapes(s, id, i, stack, ub) ==
    IF s.status # "ok" \/ i > Len(s.n.layers[id].inputBlobsId) THEN s
    ELSE Let(s.n.layers[id].inputBlobsId[i], LAMBDA pin :
         Let(IF pin.lid \notin DOMAIN s.m \/ s.m[pin.lid].out = <<>>
             THEN getLayerShapesRecursively(s, pin.lid, stack \cup {id}, ub)
             ELSE s, LAMBDA s1 :
           IF s1.status # "ok" THEN s1
           ELSE CollectInputShapes(PushInputShape(s1, id, pin.lid, pin.oid, ub),
                                   id, i + 1, stack, ub)))

\* the layer's getMemoryShapes on the input shapes gathered for it
InferLayerShapes(s, id) ==
    Let(getLayerInstance(s.n.layers[id]), LAMBDA inst :
      IF inst.status # "ok" THEN [s EXCEPT !.status = "error"]
      ELSE Let(shapeInference(inst.ld.type, s.m[id].in,
                              Cardinality(inst.ld.requiredOutputs)), LAMBDA r :
             IF r.status # "ok"
             THEN [s EXCEPT !.n.layers[id] = inst.ld, !.status = "error"]
             ELSE [s EXCEPT !.n.layers[id] = inst.ld,
                            !.m[id] = [in |-> s.m[id].in, out |-> r.out,
                                       inplace |-> r.inplace]]))

getLayerShapesRecursively(s, id, stack, ub) ==
    IF s.status # "ok" THEN s
    ELSE IF id \in stack THEN [s EXCEPT !.status = "crash"]  \* recursion without end
    ELSE Let([s EXCEPT !.n = TouchLayer(s.n, id),
                       !.m = MapPut(s.m, id, MapGet(s.m, id, LayerShapes))], LAMBDA s0 :
         Let(IF s0.m[id].in = <<>> THEN CollectInputShapes(s0, id, 1, stack, ub)
             ELSE s0, LAMBDA s1 :
           IF s1.status # "ok" THEN s1 ELSE InferLayerShapes(s1, id)))

RECURSIVE ShapesLoop(_, _, _)
ShapesLoop(s, ids, ub) ==
    IF ids = <<>> \/ s.status # "ok" THEN s
    ELSE ShapesLoop(getLayerShapesRecursively(s, Head(ids), {}, ub), Tail(ids), ub)

\* Net::Impl::getLayersShapes; the loop runs over the layers present at its start
\* (a layer the loop itself inserts has id -1, before the iterator)
getLayersShapes(n, netInputShapes, ub) ==
    ShapesLoop([n |-> n, m |-> (0 :> [LayerShapes EXCEPT !.in = netInputShapes]),
                status |-> "ok"],
               SortedSeq(DOMAIN n.layers), ub)

----------------------------------------------------------------------------
(* Allocation: Net::Impl::allocateLayer, allocateLayers, setUpNet *)

shape(mat) == mat.shape

\* the storages of the output tensors of the network
UsedData(n) ==
    UNION {{n.layers[l].outputBlobs[i].data : i \in DOMAIN n.layers[l].outputBlobs} :
              l \in DOMAIN n.layers} \ {0}

\* a storage no tensor refers to: the smallest free identity
FreshData(used) == MinOf({d \in 1..(Cardinality(used) + 1) : d \notin used})

\* std::vector::resize
Resize(v, size, dflt) == [i \in 1..size |-> IF i <= Len(v) THEN v[i] ELSE dflt]

\* *ld.inputBlobs[i]: the tensor a bound input pointer refers to; a pointer past
\* the end of the producer's outputs reads garbage
Deref(n, from, ub) ==
    IF hasLayer(n, from.lid) /\ from.oid >= 0
          /\ from.oid < Len(n.layers[from.lid].outputBlobs)
    THEN n.layers[from.lid].outputBlobs[from.oid + 1]
    ELSE [shape |-> ub.garbage, data |-> 0]

\* the "bind inputs" loop from input i on; s = [n, used, log, status], log
\* lists what the pass has done: <<"bind", lid>> when the input pointers of lid
\* are bound, <<"finalize", lid>> when finalize of lid is invoked
RECURSIVE BindInputs(_, _, _, _)
BindInputs(s, lid, i, ub) ==
    IF s.status # "ok" THEN s
    ELSE IF i > Len(s.n.layers[lid].inputBlobsId)
         THEN [s EXCEPT !.log = Append(@, <<"bind", lid>>)]
    ELSE Let(s.n.layers[lid].inputBlobsId[i], LAMBDA from :
           IF ~valid(from) THEN [s EXCEPT !.status = "error"]
           ELSE IF ~(from.oid < Len(s.n.layers[from.lid].outputBlobs)) /\ ub.crash
                THEN [s EXCEPT !.status = "error"]   \* CV_DbgAssert of a debug build
           ELSE BindInputs([s EXCEPT !.n.layers[lid].inputBlobs[i] = from],
                           lid, i + 1, ub))

\* output i of an in-place layer: the storage of input i under the output's shape
ShareInput(s, lid, outShape, i, ub) ==
    Let(s.n.layers[lid], LAMBDA ld :
      IF Len(ld.inputBlobs) # Len(ld.outputBlobs) THEN [s EXCEPT !.status = "error"]
      ELSE Let(Deref(s.n, ld.inputBlobs[i], ub), LAMBDA inp :
             IF total(inp.shape) # total(outShape) THEN [s EXCEPT !.status = "error"]
             ELSE [s EXCEPT !.n.layers[lid].outputBlobs[i] =
                               [shape |-> outShape, data |-> inp.data]]))

\* output i of any other layer: storage of its own
CreateOutput(s, lid, outShape, i) ==
    Let(FreshData(s.used), LAMBDA d :
      [s EXCEPT !.n.layers[lid].outputBlobs[i] = [shape |-> outShape, data |-> d],
                !.used = @ \cup {d}])

\* the loop over the output shapes from output i on
RECURSIVE AllocOutputs(_, _, _, _, _)
AllocOutputs(s, lid, layerShapes, i, ub) ==
    IF s.status # "ok" \/ i > Len(layerShapes.out) THEN s
    ELSE IF shape(s.n.layers[lid].outputBlobs[i]) = layerShapes.out[i]
         THEN AllocOutputs(s, lid, layerShapes, i + 1, ub)
    ELSE IF layerShapes.inplace
         THEN AllocOutputs(ShareInput(s, lid, layerShapes.out[i], i, ub),
                           lid, layerShapes, i + 1, ub)
    ELSE AllocOutputs(CreateOutput(s, lid, layerShapes.out[i], i),
                      lid, layerShapes, i + 1, ub)

RECURSIVE allocateLayer(_, _, _, _, _)
RECURSIVE AllocParents(_, _, _, _, _)

AllocParents(s, parents, layersShapes, stack, ub) ==
    IF parents = <<>> \/ s.status # "ok" THEN s
    ELSE AllocParents(allocateLayer(s, Head(parents), layersShapes, stack, ub),
                      Tail(parents), layersShapes, stack, ub)

\* the parents as they are stored, the producers of the pins not inserted
ParentsOf_Stored(ld) == ld.inputLayersId

\* ld.inputLayersId with the producers of the input pins added
ParentsOf(ld) ==
    ld.inputLayersId \cup {ld.inputBlobsId[i].lid : i \in DOMAIN ld.inputBlobsId}

\* the second half of allocateLayer: the outputs against the inferred shapes, then
\* the layer instance and the flag
AllocateOutputBlobs(s, lid, layersShapes, ub) ==
    IF s.status # "ok" THEN s
    ELSE IF lid \notin DOMAIN layersShapes THEN [s EXCEPT !.status = "error"]
    ELSE IF Cardinality(s.n.layers[lid].requiredOutputs) > Len(layersShapes[lid].out)
         THEN [s EXCEPT !.status = "error"]
    ELSE Let(AllocOutputs(
                [s EXCEPT !.n.layers[lid].outputBlobs =
                             Resize(@, Max(1, Len(layersShapes[lid].out)), EmptyMat)],
                lid, layersShapes[lid], 1, ub), LAMBDA s4 :
           IF s4.status # "ok" THEN s4
           ELSE Let(getLayerInstance(s4.n.layers[lid]), LAMBDA inst :
                  IF inst.status # "ok" THEN [s4 EXCEPT !.status = "error"]
                  ELSE [s4 EXCEPT !.n.layers[lid] = [inst.ld EXCEPT !.flag = 1],
                                  !.log = Append(@, <<"finalize", lid>>)]))

allocateLayer(s, lid, layersShapes, stack, ub) ==
    IF s.status # "ok" THEN s
    ELSE IF lid \in stack THEN [s EXCEPT !.status = "crash"]   \* recursion without end
    ELSE IF hasLayer(s.n, lid) /\ s.n.layers[lid].flag # 0 THEN s
    ELSE Let(TouchLayer(s.n, lid), LAMBDA n0 :
         Let(ParentsOf(n0.layers[lid]), LAMBDA parents :
         Let(AllocParents([s EXCEPT !.n = [n0 EXCEPT !.layers[lid].inputLayersId = parents]],
                          SortedSeq(parents), layersShapes, stack \cup {lid}, ub),
             LAMBDA s2 :
           IF s2.status # "ok" THEN s2
           ELSE AllocateOutputBlobs(
                   BindInputs([s2 EXCEPT !.n.layers[lid].inputBlobs =
                                  Resize(@, Len(s2.n.layers[lid].inputBlobsId), DefaultPin)],
                              lid, 1, ub),
                   lid, layersShapes, ub))))

RECURSIVE AllocLoop(_, _, _, _)
AllocLoop(s, ids, layersShapes, ub) ==
    IF ids = <<>> \/ s.status # "ok" THEN s
    ELSE AllocLoop(allocateLayer(s, Head(ids), layersShapes, {}, ub),
                   Tail(ids), layersShapes, ub)

\* the flags left as they are
ClearFlags_Keep(n) == n

ClearFlags(n) == [n EXCEPT !.layers = [l \in DOMAIN n.layers |->
                                          [n.layers[l] EXCEPT !.flag = 0]]]

\* the shapes of the tensors set on the network input
NetInputShapes(n) == [i \in DOMAIN n.layers[0].outputBlobs |->
                         shape(n.layers[0].outputBlobs[i])]

\* Net::Impl::allocateLayers
allocateLayers(n, ub) ==
    Let(ClearFlags(n), LAMBDA n0 :
    Let(NetInputShapes(n0), LAMBDA inputShapes :
      IF inputShapes = <<>> \/ \E i \in DOMAIN inputShapes : total(inputShapes[i]) = 0
      THEN Outcome(n0, "error", -1)
      ELSE Let(getLayersShapes(n0, inputShapes, ub), LAMBDA sh :
             IF sh.status # "ok" THEN Outcome(sh.n, sh.status, -1)
             ELSE Let(AllocLoop([n |-> sh.n, used |-> UsedData(sh.n), log |-> <<>>,
                                 status |-> "ok"],
                                SortedSeq(DOMAIN sh.n.layers), sh.m, ub), LAMBDA a :
                    Outcome(a.n, a.status, a.log)))))

\* Net::Impl::computeNetOutputLayers
computeNetOutputLayers(n) ==
    [n EXCEPT !.netOutputs =
        SortedSeq({lid \in DOMAIN n.layers : Cardinality(n.layers[lid].requiredOutputs) = 0})]

\* Net::Impl::setUpNet; the value is the log of the allocation pass, empty when
\* no pass was run
setUpNet(n, ub) ==
    IF n.netWasAllocated THEN Outcome(n, "ok", <<>>)
    ELSE Let(allocateLayers(n, ub), LAMBDA a :
           IF a.status # "ok" THEN a
           ELSE Outcome([computeNetOutputLayers(a.impl) EXCEPT !.netWasAllocated = TRUE],
                        "ok", a.value))

----------------------------------------------------------------------------
(* Forward: Net::Impl::forwardLayer, forwardAll, Net::forward *)

\* s = [n, order, status]; order lists the layers whose forward() ran
RECURSIVE forwardLayer(_, _, _, _, _)
RECURSIVE ForwardParents(_, _, _, _)

ForwardParents(s, parents, stack, ub) ==
    IF parents = <<>> \/ s.status # "ok" THEN s
    ELSE ForwardParents(forwardLayer(s, Head(parents), FALSE, stack, ub),
                        Tail(parents), stack, ub)

forwardLayer(s, lid, clearFlags, stack, ub) ==
    IF s.status # "ok" THEN s
    ELSE IF lid \in stack THEN [s EXCEPT !.status = "crash"]   \* recursion without end
    ELSE Let([s EXCEPT !.n = IF clearFlags THEN ClearFlags(TouchLayer(s.n, lid))
                             ELSE TouchLayer(s.n, lid)], LAMBDA s0 :
           IF s0.n.layers[lid].flag # 0 THEN s0
           ELSE Let(ForwardParents(s0, SortedSeq(s0.n.layers[lid].inputLayersId),
                                   stack \cup {lid}, ub), LAMBDA s1 :
                  IF s1.status # "ok" THEN s1
                  \* ld.layerInstance->forward(...) through a null pointer
                  ELSE IF ~s1.n.layers[lid].layerInstance /\ ub.crash
                       THEN [s1 EXCEPT !.status = "crash"]
                  ELSE [s1 EXCEPT !.n.layers[lid].flag = 1,
                                  !.order = Append(@, lid)]))

RECURSIVE ForwardLoop(_, _, _)
ForwardLoop(s, ids, ub) ==
    IF ids = <<>> \/ s.status # "ok" THEN s
    ELSE ForwardLoop(forwardLayer(s, Head(ids), FALSE, {}, ub), Tail(ids), ub)

\* Net::Impl::forwardAll
forwardAll(n, ub) ==
    ForwardLoop([n |-> ClearFlags(n), order |-> <<>>, status |-> "ok"],
                SortedSeq(DOMAIN n.layers), ub)

\* a LayerId (DictValue): an integer id or a layer name
LayerIdInt(i) == [isString |-> FALSE, str |-> <<>>, int |-> i]

LayerIdString(str) == [isString |-> TRUE, str |-> str, int |-> -1]

\* the id getLayerData(layerDesc) finds, -1 when it throws
LayerIdOf(n, layerDesc) ==
    IF layerDesc.isString THEN getLayerId(n, layerDesc.str)
    ELSE IF hasLayer(n, layerDesc.int) THEN layerDesc.int ELSE -1

\* the forward pass Net::forward runs once the net is set up
ForwardTo(n, toLayer, ub) ==
    IF toLayer.isString /\ toLayer.str = <<>>
    THEN forwardAll(n, ub)
    ELSE IF LayerIdOf(n, toLayer) < 0
         THEN [n |-> n, order |-> <<>>, status |-> "error"]
    ELSE forwardLayer([n |-> n, order |-> <<>>, status |-> "ok"],
                      LayerIdOf(n, toLayer), TRUE, {}, ub)

\* Net::forward(toLayer); the empty string asks for all layers
forward(n, toLayer, ub) ==
    Let(setUpNet(n, ub), LAMBDA a :
      IF a.status # "ok" THEN Outcome(a.impl, a.status, <<>>)
      ELSE Let(ForwardTo(a.impl, toLayer, ub), LAMBDA f :
             Outcome(f.n, f.status, f.order)))

----------------------------------------------------------------------------
(* Pin aliases and Net::setBlob *)

Digits == ("0" :> 0) @@ ("1" :> 1) @@ ("2" :> 2) @@ ("3" :> 3) @@ ("4" :> 4)
          @@ ("5" :> 5) @@ ("6" :> 6) @@ ("7" :> 7) @@ ("8" :> 8) @@ ("9" :> 9)

isdigit(c) == c \in DOMAIN Digits

\* std::strtol on a string of digits
RECURSIVE strtol(_, _)
strtol(str, acc) == IF str = <<>> THEN acc
                    ELSE strtol(Tail(str), 10 * acc + Digits[Head(str)])

\* Net::Impl::splitPin
splitPin(pinAlias) ==
    LET dots == {i \in DOMAIN pinAlias : pinAlias[i] = "."}
    IN IF dots = {} THEN [layerName |-> pinAlias, outName |-> <<>>]
       ELSE LET delimPos == MinOf(dots)
            IN [layerName |-> SubSeq(pinAlias, 1, delimPos - 1),
                outName |-> SubSeq(pinAlias, delimPos + 1, Len(pinAlias))]

\* Net::Impl::resolvePinOutputName for an output pin; a name that is no number is
\* asked of the layer instance (Layer::outputNameToIndex, and DataLayer's with no
\* names set, answer -1)
resolvePinOutputName(ld, outName) ==
    IF outName = <<>> THEN [status |-> "ok", ld |-> ld, idx |-> 0]
    ELSE IF \A i \in DOMAIN outName : isdigit(outName[i])
         THEN [status |-> "ok", ld |-> ld, idx |-> strtol(outName, 0)]
    ELSE LET inst == getLayerInstance(ld)
         IN [status |-> inst.status, ld |-> inst.ld, idx |-> -1]

\* Net::Impl::getPinByAlias
getPinByAlias(n, pinAlias) ==
    LET sp == splitPin(pinAlias)
        lid == IF sp.layerName = <<>> THEN 0 ELSE getLayerId(n, sp.layerName)
    IN IF lid < 0 THEN Outcome(n, "ok", LayerPin(lid, -1))
       ELSE LET r == resolvePinOutputName(n.layers[lid], sp.outName)
            IN Outcome([n EXCEPT !.layers[lid] = r.ld], r.status, LayerPin(lid, r.idx))

\* setBlob that takes the allocated status from the shapes alone
setBlob_ShapeOnly(n, outputName, blobShape) ==
    LET p == getPinByAlias(n, outputName)
        pin == p.value
    IN IF p.status # "ok" THEN Outcome(p.impl, p.status, -1)
       ELSE IF ~valid(pin) THEN Outcome(p.impl, "error", -1)
       ELSE LET ld == p.impl.layers[pin.lid]
                blobs == Resize(ld.outputBlobs,
                                Max(pin.oid + 1, Cardinality(ld.requiredOutputs)), EmptyMat)
                prevShape == shape(blobs[pin.oid + 1])
                d == FreshData(UsedData(p.impl))
                n1 == [p.impl EXCEPT
                          !.layers[pin.lid].outputBlobs =
                              [blobs EXCEPT ![pin.oid + 1] = [shape |-> blobShape, data |-> d]],
                          !.netWasAllocated = (prevShape = blobShape)]
            IN Outcome(n1, "ok", 0)

\* Net::setBlob; the tensor given is a fresh copy (clone) of shape blobShape
setBlob(n, outputName, blobShape) ==
    LET p == getPinByAlias(n, outputName)
        pin == p.value
    IN IF p.status # "ok" THEN Outcome(p.impl, p.status, -1)
       ELSE IF ~valid(pin) THEN Outcome(p.impl, "error", -1)
       ELSE LET ld == p.impl.layers[pin.lid]
                blobs == Resize(ld.outputBlobs,
                                Max(pin.oid + 1, Cardinality(ld.requiredOutputs)), EmptyMat)
                prevShape == shape(blobs[pin.oid + 1])
                d == FreshData(UsedData(p.impl))
                n1 == [p.impl EXCEPT
                          !.layers[pin.lid].outputBlobs =
                              [blobs EXCEPT ![pin.oid + 1] = [shape |-> blobShape, data |-> d]],
                          !.netWasAllocated = (@ /\ prevShape = blobShape)]
            IN Outcome(n1, "ok", 0)

----------------------------------------------------------------------------
(* The Torch importer: modules read from a file, and TorchImporter::fill *)

\* bound on the number of modules in the tree under the root
MaxNodes == 4

\* TorchImporter::Module
Module(thName, apiType, params, modules) ==
    [thName |-> thName, apiType |-> apiType, params |-> params, modules |-> modules]

\* the modules without children that readTorchObject builds: a layer with an
\* API type, a max pooling that records its indices, CAddTable, JoinTable and
\* SpatialMaxUnpooling (torch_index, a key every module has, is left out)
PoolingParams(indices) ==
    ("pool" :> "MAX") @@ ("indices_blob_id" :> indices) @@ ("kernel_h" :> 2)
    @@ ("kernel_w" :> 2) @@ ("stride_h" :> 2) @@ ("stride_w" :> 2)
    @@ ("pad_h" :> 0) @@ ("pad_w" :> 0)

LeafModules ==
    {Module("ReLU", "ReLU", NoParams, <<>>),
     Module("SpatialMaxPooling", "Pooling", PoolingParams(1), <<>>),
     Module("CAddTable", "", NoParams, <<>>),
     Module("JoinTable", "", ("dimension" :> 2), <<>>)}
    \cup {Module("SpatialMaxUnpooling", "", ("indices_blob_id" :> b), <<>>) : b \in {1, 2}}

\* the containers readTorchObject builds, before their children are read
ContainerHeads ==
    {Module("Sequential", "", NoParams, <<>>),
     Module("ConcatTable", "", NoParams, <<>>),
     Module("Parallel", "", ("inputDimension" :> 1) @@ ("outputDimension" :> 2), <<>>)}
    \cup {Module("Concat", "", ("dimension" :> d), <<>>) : d \in {1, 2}}

RECURSIVE ModuleCount(_)
RECURSIVE ModulesCount(_)
ModuleCount(module) == 1 + ModulesCount(module.modules)
ModulesCount(modules) ==
    IF modules = <<>> THEN 0
    ELSE ModuleCount(Head(modules)) + ModulesCount(Tail(modules))

\* curModule is the path of child indices from rootModule to the module
\* whose table is being read; curModule->modules.push_back(newModule)
RECURSIVE pushBack(_, _, _)
pushBack(module, path, newModule) ==
    IF path = <<>> THEN [module EXCEPT !.modules = Append(@, newModule)]
    ELSE [module EXCEPT !.modules[Head(path)] = pushBack(@, Tail(path), newModule)]

\* the number of children of the module at path
RECURSIVE childCount(_, _)
childCount(module, path) ==
    IF path = <<>> THEN Len(module.modules)
    ELSE childCount(module.modules[Head(path)], Tail(path))

\* toString of a non-negative int
DigitChars == <<"0", "1", "2", "3", "4", "5", "6", "7", "8", "9">>

RECURSIVE toString(_)
toString(v) == IF v < 10 THEN <<DigitChars[v + 1]>>
               ELSE toString(v \div 10) \o <<DigitChars[(v % 10) + 1]>>

\* the importer while it fills a network: st = [impl, moduleCounter,
\* addedModules, status, filled]; once status is not "ok" an exception is on
\* its way out and nothing more is done
FillState(n) == [impl |-> n, moduleCounter |-> 0, addedModules |-> <<>>, status |-> "ok",
                 filled |-> <<>>]

\* the record of one call of fill: its arguments, the last layer id before
\* and after it, what it returned and how it ended
FillCall(st, module, prevLayerId, prevOutNum, r) ==
    [module |-> module, prevLayerId |-> prevLayerId, prevOutNum |-> prevOutNum,
     before |-> st.impl.lastLayerId, after |-> r.st.impl.lastLayerId,
     id |-> r.id, status |-> r.st.status]

Filled(st, id) == [st |-> st, id |-> IF st.status = "ok" THEN id ELSE -1]

\* TorchImporter::generateLayerName
generateLayerName(st, label) ==
    [st |-> [st EXCEPT !.moduleCounter = @ + 1],
     name |-> <<"l">> \o toString(st.moduleCounter + 1) \o <<"_", label>>]

\* net.addLayer(generateLayerName(label), type, params)
netAddLayer(st, label, type, params) ==
    IF st.status # "ok" THEN Filled(st, -1)
    ELSE Let(generateLayerName(st, label), LAMBDA g :
         Let(addLayer(g.st.impl, g.name, type, params), LAMBDA o :
           Filled([g.st EXCEPT !.impl = o.impl, !.status = o.status], o.value)))

\* net.connect(outLayerId, outNum, inLayerId, inNum)
netConnect(st, outLayerId, outNum, inLayerId, inNum) ==
    IF st.status # "ok" THEN st
    ELSE Let(connect(st.impl, outLayerId, outNum, inLayerId, inNum), LAMBDA o :
           [st EXCEPT !.impl = o.impl, !.status = o.status])

\* addedModules.push_back(std::make_pair(id, module))
pushAdded(st, id, module) ==
    IF st.status # "ok" THEN st
    ELSE [st EXCEPT !.addedModules = Append(@, [first |-> id, second |-> module])]

\* for (i = 0; i < ids.size(); i++) net.connect(ids[i], 0, id, i)
RECURSIVE ConnectUnconnected(_, _, _, _)
ConnectUnconnected(st, ids, i, id) ==
    IF st.status # "ok" \/ i > Len(ids) THEN st
    ELSE ConnectUnconnected(netConnect(st, ids[i], 0, id, i - 1), ids, i + 1, id)

\* the search of SpatialMaxUnpooling for its pooling layer: the index in
\* addedModules of the first Pooling with the same indices_blob_id, or 0
FindPooling(addedModules, indicesBlobId) ==
    LET found == {i \in DOMAIN addedModules :
                     /\ addedModules[i].second.apiType = "Pooling"
                     /\ "indices_blob_id" \in DOMAIN addedModules[i].second.params
                     /\ addedModules[i].second.params["indices_blob_id"] = indicesBlobId}
    IN IF found = {} THEN 0 ELSE MinOf(found)

\* the keys SpatialMaxUnpooling copies from its pooling layer, as it names them
UnpoolKeys == ("pool_k_h" :> "kernel_h") @@ ("pool_k_w" :> "kernel_w")
              @@ ("pool_stride_h" :> "stride_h") @@ ("pool_stride_w" :> "stride_w")
              @@ ("pool_pad_h" :> "pad_h") @@ ("pool_pad_w" :> "pad_w")

\* module->params after the six params.set calls; from is the params of the
\* pooling layer, or what is read through the null poolingLayer.second
UnpoolParams(params, from, found, ub) ==
    [k \in DOMAIN params \cup DOMAIN UnpoolKeys |->
        IF k \in DOMAIN UnpoolKeys
        THEN (IF found THEN from[UnpoolKeys[k]] ELSE ub.uninit)
        ELSE params[k]]

RECURSIVE fill(_, _, _, _, _)
RECURSIVE FillSequential(_, _, _, _, _, _)
RECURSIVE FillConcat(_, _, _, _, _, _)
RECURSIVE FillParallel(_, _, _, _, _, _, _)
RECURSIVE FillConcatTable(_, _, _, _, _, _)

\* the loop of "Sequential" from child i on
FillSequential(st, modules, i, prevLayerId, prevOutNum, ub) ==
    IF st.status # "ok" \/ i > Len(modules) THEN Filled(st, prevLayerId)
    ELSE Let(fill(st, modules[i], prevLayerId, prevOutNum, ub), LAMBDA r :
           FillSequential(r.st, modules, i + 1, r.id, 0, ub))

\* a loop of "Concat" that fills every child from output 0 of the Split
RECURSIVE FillConcat_FromOutputZero(_, _, _, _, _, _)
FillConcat_FromOutputZero(st, modules, i, splitId, mergeId, ub) ==
    IF st.status # "ok" \/ i > Len(modules) THEN st
    ELSE Let(fill(st, modules[i], splitId, 0, ub), LAMBDA r :
           FillConcat_FromOutputZero(netConnect(r.st, r.id, 0, mergeId, i - 1),
                                     modules, i + 1, splitId, mergeId, ub))

\* the loop of "Concat" from child i on
FillConcat(st, modules, i, splitId, mergeId, ub) ==
    IF st.status # "ok" \/ i > Len(modules) THEN st
    ELSE Let(fill(st, modules[i], splitId, i - 1, ub), LAMBDA r :
           FillConcat(netConnect(r.st, r.id, 0, mergeId, i - 1),
                      modules, i + 1, splitId, mergeId, ub))

\* the loop of "Parallel" from child i on
FillParallel(st, modules, i, splitId, mergeId, reshapeId, ub) ==
    IF st.status # "ok" \/ i > Len(modules) THEN st
    ELSE Let(fill(netConnect(st, splitId, i - 1, reshapeId, i - 1),
                  modules[i], reshapeId, i - 1, ub), LAMBDA r :
           FillParallel(netConnect(r.st, r.id, 0, mergeId, i - 1),
                        modules, i + 1, splitId, mergeId, reshapeId, ub))

\* the loop of "ConcatTable" from child i on; newId is the local that only
\* the loop body assigns
FillConcatTable(st, modules, i, splitId, newId, ub) ==
    IF st.status # "ok" \/ i > Len(modules) THEN Filled(st, newId)
    ELSE Let(fill(st, modules[i], splitId, i - 1, ub), LAMBDA r :
           FillConcatTable(r.st, modules, i + 1, splitId, r.id, ub))

\* fill on a module that is a layer of the API
FillLayer(st, module, prevLayerId, prevOutNum) ==
    Let(netAddLayer(st, module.apiType, module.apiType, module.params), LAMBDA a :
      Filled(pushAdded(netConnect(a.st, prevLayerId, prevOutNum, a.id, 0), a.id, module),
             a.id))

\* fill on "Concat"
FillConcatModule(st, module, prevLayerId, prevOutNum, ub) ==
    Let(netAddLayer(st, "torchSplit", "Split", NoParams), LAMBDA split :
    Let(netAddLayer(split.st, "torchMerge", "Concat",
                    ("axis" :> module.params["dimension"] - 1)), LAMBDA merge :
      Filled(pushAdded(FillConcat(netConnect(merge.st, prevLayerId, prevOutNum,
                                             split.id, 0),
                                  module.modules, 1, split.id, merge.id, ub),
                       merge.id, module),
             merge.id)))

\* fill on "Parallel"
FillParallelModule(st, module, prevLayerId, prevOutNum, ub) ==
    Let(netAddLayer(st, "torchSplit", "Slice",
                    ("axis" :> module.params["inputDimension"] - 1)), LAMBDA split :
    Let(netAddLayer(split.st, "torchMerge", "Concat",
                    ("axis" :> module.params["outputDimension"] - 1)), LAMBDA merge :
    Let(netAddLayer(merge.st, "torchReshape", "Reshape",
                    ("axis" :> module.params["inputDimension"] - 1)
                       @@ ("num_axes" :> 1)), LAMBDA reshape :
      Filled(pushAdded(FillParallel(netConnect(reshape.st, prevLayerId, prevOutNum,
                                               split.id, 0),
                                    module.modules, 1, split.id, merge.id, reshape.id, ub),
                       merge.id, module),
             merge.id))))

\* fill on "ConcatTable"
FillConcatTableModule(st, module, prevLayerId, prevOutNum, ub) ==
    Let(netAddLayer(st, "torchSplit", "Split", NoParams), LAMBDA split :
      FillConcatTable(pushAdded(netConnect(split.st, prevLayerId, prevOutNum, split.id, 0),
                                split.id, module),
                      module.modules, 1, split.id, ub.uninit, ub))

\* fill on "JoinTable"
FillJoinTable(st, module) ==
    Let(getUnconnectedOutLayers(st.impl), LAMBDA ids :
    Let(netAddLayer(st, "torchMerge", "Concat",
                    ("axis" :> module.params["dimension"] - 1)), LAMBDA merge :
      Filled(ConnectUnconnected(pushAdded(merge.st, merge.id, module), ids, 1, merge.id),
             merge.id)))

\* fill on "CAddTable"
FillCAddTable(st, module) ==
    Let(generateLayerName(st, "torchCAddTable"), LAMBDA g :
    Let(getUnconnectedOutLayers(st.impl), LAMBDA ids :
    Let(addLayer(g.st.impl, g.name, "Eltwise", ("operation" :> "sum")), LAMBDA o :
      Filled(pushAdded(ConnectUnconnected(
                          [g.st EXCEPT !.impl = o.impl, !.status = o.status],
                          ids, 1, o.value),
                       o.value, module),
             o.value))))

\* the end of the SpatialMaxUnpooling branch: the layer is added and connected,
\* then CV_Assert(poolingLayer.first != -1), then the connection of the indices
ConnectUnpooling(st, a, prevLayerId, at) ==
    Let(netConnect(a.st, prevLayerId, 0, a.id, 0), LAMBDA s1 :
      IF at # 0 THEN Filled(netConnect(s1, st.addedModules[at].first, 1, a.id, 1), a.id)
      ELSE IF s1.status = "ok" THEN Filled([s1 EXCEPT !.status = "error"], a.id)
      ELSE Filled(s1, a.id))

\* fill on "SpatialMaxUnpooling"
FillUnpooling(st, module, prevLayerId, ub) ==
    IF "indices_blob_id" \notin DOMAIN module.params
    THEN Filled([st EXCEPT !.status = "error"], -1)
    ELSE Let(FindPooling(st.addedModules, module.params["indices_blob_id"]), LAMBDA at :
           IF at = 0 /\ ub.crash THEN Filled([st EXCEPT !.status = "crash"], -1)
           ELSE ConnectUnpooling(
                   st,
                   netAddLayer(st, "torchMaxUnpooling", "MaxUnpool",
                               UnpoolParams(module.params,
                                            IF at # 0
                                            THEN st.addedModules[at].second.params
                                            ELSE NoParams,
                                            at # 0, ub)),
                   prevLayerId, at))

\* the branches of TorchImporter::fill
FillModule(st, module, prevLayerId, prevOutNum, ub) ==
    IF module.apiType # "" THEN FillLayer(st, module, prevLayerId, prevOutNum)
    ELSE IF module.thName = "Sequential"
         THEN FillSequential(st, module.modules, 1, prevLayerId, prevOutNum, ub)
    ELSE IF module.thName = "Concat"
         THEN FillConcatModule(st, module, prevLayerId, prevOutNum, ub)
    ELSE IF module.thName = "Parallel"
         THEN FillParallelModule(st, module, prevLayerId, prevOutNum, ub)
    ELSE IF module.thName = "ConcatTable"
         THEN FillConcatTableModule(st, module, prevLayerId, prevOutNum, ub)
    ELSE IF module.thName = "JoinTable" THEN FillJoinTable(st, module)
    ELSE IF module.thName = "CAddTable" THEN FillCAddTable(st, module)
    ELSE IF module.thName = "SpatialMaxUnpooling"
         THEN FillUnpooling(st, module, prevLayerId, ub)
    ELSE Filled([st EXCEPT !.status = "error"], -1)

\* TorchImporter::fill: the importer after the call and the id it returns;
\* every call that was entered is noted in st.filled when it is left
fill(st, module, prevLayerId, prevOutNum, ub) ==
    IF st.status # "ok" THEN Filled(st, -1)
    ELSE Let(FillModule(st, module, prevLayerId, prevOutNum, ub), LAMBDA r :
           [r EXCEPT !.st.filled =
               Append(@, FillCall(st, module, prevLayerId, prevOutNum, r))])

\* what undefined behaviour does in fill: the process dies on the null
\* poolingLayer.second or garbage is read through it, and the int newId that
\* was never assigned holds any value: the id of a layer, or of none
UninitInts == {0, 99}

ImporterUB == {[crash |-> TRUE, uninit |-> 0]}
              \cup {[crash |-> FALSE, uninit |-> u] : u \in UninitInts}

\* TorchImporter::populateNet on a new Net, once the file is read into rootModule
populateNet(root, ub) == fill(FillState(NewImpl), root, 0, 0, ub)

----------------------------------------------------------------------------
(* The network API as a state machine *)

\* names a caller gives to new layers, in the order a run takes them
NamePool == <<"a", "b", "c", "d">>

DottedName == <<"a", ".", "b">>

FreshNames(n) == {<<NamePool[i]>> : i \in {j \in DOMAIN NamePool :
                     /\ <<NamePool[j]>> \notin DOMAIN n.layerNameToId
                     /\ \A k \in 1..(j - 1) : <<NamePool[k]>> \in DOMAIN n.layerNameToId}}

\* the names addLayer is tried with: a new one, every name in use, one with a dot
NameInputs(n) == FreshNames(n) \cup DOMAIN n.layerNameToId \cup {DottedName}

\* layer ids given to connect and forward: 0 .. the last id given out
IdInputs(n) == 0..n.lastLayerId

\* input and output indices given to connect
IdxInputs == {0, 1}

BlobShapes == {<<2>>, <<1, 2>>, <<3>>}

\* what undefined behaviour does: the process dies, or a garbage shape is read
GarbageShapes == {<<2>>, <<3>>}

UBOutcomes == {[crash |-> TRUE, garbage |-> <<>>]}
              \cup {[crash |-> FALSE, garbage |-> sh] : sh \in GarbageShapes}

AliasInputs == {<<".", "0">>, <<".", "1">>, <<"a">>}

ForwardTargets(n) == {LayerIdString(<<>>)} \cup {LayerIdInt(i) : i \in IdInputs(n)}

Result(op, args, o) == [op |-> op, args |-> args, status |-> o.status, value |-> o.value]

LayerCount(n) == Cardinality({l \in DOMAIN n.layers : l > 0})

Running == ret.status # "crash" /\ calls < MaxCalls /\ importer.net = "none"

Called(op, args, o) ==
    /\ impl' = o.impl
    /\ ret' = Result(op, args, o)
    /\ calls' = calls + 1
    /\ UNCHANGED <<rootModule, importer, parser>>

NoteAdded(o) ==
    addedIds' = IF hasLayer(o.impl, o.value) /\ ~hasLayer(impl, o.value)
                THEN Append(addedIds, o.value) ELSE addedIds

AddLayer ==
    /\ Running /\ LayerCount(impl) < MaxLayers
    /\ \E name \in NameInputs(impl), type \in RegisteredTypes :
          LET o == addLayer(impl, name, type, NoParams)
          IN Called("addLayer", <<name, type>>, o) /\ NoteAdded(o)

AddLayerToPrev ==
    /\ Running /\ LayerCount(impl) < MaxLayers
    /\ \E name \in NameInputs(impl), type \in RegisteredTypes :
          LET o == addLayerToPrev(impl, name, type, NoParams)
          IN Called("addLayerToPrev", <<name, type>>, o) /\ NoteAdded(o)

Connect ==
    /\ Running
    /\ \E outLayerId \in IdInputs(impl), inLayerId \in IdInputs(impl),
          outNum \in IdxInputs, inNum \in IdxInputs :
          /\ Called("connect", <<outLayerId, outNum, inLayerId, inNum>>,
                    connect(impl, outLayerId, outNum, inLayerId, inNum))
          /\ UNCHANGED addedIds

SetBlob ==
    /\ Running
    /\ \E outputName \in AliasInputs, blobShape \in BlobShapes :
          /\ Called("setBlob", <<outputName, blobShape>>,
                    setBlob(impl, outputName, blobShape))
          /\ UNCHANGED addedIds

Allocate ==
    /\ Running
    /\ \E ub \in UBOutcomes :
          /\ Called("allocate", <<>>, setUpNet(impl, ub))
          /\ UNCHANGED addedIds

Forward ==
    /\ Running
    /\ \E toLayer \in ForwardTargets(impl), ub \in UBOutcomes :
          /\ Called("forward", <<toLayer>>, forward(impl, toLayer, ub))
          /\ UNCHANGED addedIds

\* no protobuf parser is at work
NoParser == [stage |-> "none"]

\* no importer: the network is built through the API
NoImporter == [net |-> "none", curModule |-> <<>>, moduleCounter |-> 0,
               addedModules |-> <<>>, filled |-> <<>>]

Init ==
    /\ impl = NewImpl
    /\ ret = [op |-> "Net", args |-> <<>>, status |-> "ok", value |-> 0]
    /\ calls = 0
    /\ addedIds = <<>>
    /\ rootModule = <<>>
    /\ importer = NoImporter
    /\ parser = NoParser

Next == AddLayer \/ AddLayerToPrev \/ Connect \/ SetBlob \/ Allocate \/ Forward

Spec == Init /\ [][Next]_vars

\* the graph-building calls alone
NextGraph == calls < MaxGraphCalls /\ (AddLayer \/ AddLayerToPrev \/ Connect)

SpecGraph == Init /\ [][NextGraph]_vars

----------------------------------------------------------------------------
(* A caller that builds the whole graph at once, and then sets the inputs *)
(* and runs allocate and forward                                          *)

\* bound on the layers the caller adds
MaxBuilt == 2

\* bound on the calls of a run, the build counted as one
MaxPassCalls == 4

\* the pins layer k of the plan may be given: the outputs of the network input
\* and of the other layers of the plan
PlanPins(count, k) ==
    {LayerPin(lid, oid) : lid \in ({0} \cup {j + 1 : j \in 1..count}) \ {k + 1},
                          oid \in IdxInputs}

\* a layer of the plan: its type and the pins of its inputs 0 and, if any, 1
PlanLayers(count, k) ==
    {[type |-> type, pins |-> pins] :
        type \in RegisteredTypes,
        pins \in UNION {[1..len -> PlanPins(count, k)] : len \in 1..2}}

PlanSets(count) ==
    {plan \in [1..count -> UNION {PlanLayers(count, k) : k \in 1..count}] :
        \A k \in 1..count : plan[k] \in PlanLayers(count, k)}

NetPlans == UNION {PlanSets(count) : count \in 1..MaxBuilt}

\* addLayer for the layers of the plan from layer k on
RECURSIVE AddPlanned(_, _, _)
AddPlanned(o, plan, k) ==
    IF o.status # "ok" \/ k > Len(plan) THEN o
    ELSE AddPlanned(addLayer(o.impl, <<NamePool[k]>>, plan[k].type, NoParams), plan, k + 1)

\* connect for the inputs of layer lid from input i on
RECURSIVE ConnectPins(_, _, _, _)
ConnectPins(o, lid, pins, i) ==
    IF o.status # "ok" \/ i > Len(pins) THEN o
    ELSE ConnectPins(connect(o.impl, pins[i].lid, pins[i].oid, lid, i - 1),
                     lid, pins, i + 1)

RECURSIVE ConnectPlanned(_, _, _)
ConnectPlanned(o, plan, k) ==
    IF o.status # "ok" \/ k > Len(plan) THEN o
    ELSE ConnectPlanned(ConnectPins(o, getLayerId(o.impl, <<NamePool[k]>>),
                                    plan[k].pins, 1),
                        plan, k + 1)

\* the calls of the caller: addLayer for every layer, then connect for every input
buildNet(n, plan) == ConnectPlanned(AddPlanned(Outcome(n, "ok", 0), plan, 1), plan, 1)

BuildNet ==
    /\ Running /\ calls = 0
    /\ \E plan \in NetPlans :
          /\ Called("build", <<plan>>, buildNet(impl, plan))
          /\ addedIds' = SortedSeq(DOMAIN buildNet(impl, plan).impl.layers \ {0})

NextPass == calls < MaxPassCalls /\ (BuildNet \/ SetBlob \/ Allocate \/ Forward)

SpecPass == Init /\ [][NextPass]_vars

----------------------------------------------------------------------------
(* The importer as a state machine: populateNet reads the file module by  *)
(* module into rootModule, then fills the net                              *)

\* readTorchObject on a module without children
ReadModule ==
    /\ importer.net = "reading"
    /\ ModuleCount(rootModule) <= MaxNodes
    /\ \E newModule \in LeafModules :
          rootModule' = pushBack(rootModule, importer.curModule, newModule)
    /\ UNCHANGED <<impl, ret, calls, addedIds, importer, parser>>

\* readTorchObject on a container: it is pushed, and its table is read with
\* curModule on it
ReadContainer ==
    /\ importer.net = "reading"
    /\ ModuleCount(rootModule) <= MaxNodes
    /\ \E newModule \in ContainerHeads :
          rootModule' = pushBack(rootModule, importer.curModule, newModule)
    /\ importer' = [importer EXCEPT !.curModule =
                       Append(@, childCount(rootModule, importer.curModule) + 1)]
    /\ UNCHANGED <<impl, ret, calls, addedIds, parser>>

\* the table of the container is read: curModule = parentModule
EndTable ==
    /\ importer.net = "reading"
    /\ importer.curModule # <<>>
    /\ importer' = [importer EXCEPT !.curModule = SubSeq(@, 1, Len(@) - 1)]
    /\ UNCHANGED <<impl, ret, calls, addedIds, rootModule, parser>>

\* the file is read: populateNet fills the net
PopulateNet ==
    /\ importer.net = "reading"
    /\ importer.curModule = <<>>
    /\ \E ub \in ImporterUB :
          LET r == populateNet(rootModule, ub)
          IN /\ impl' = r.st.impl
             /\ ret' = [op |-> "populateNet", args |-> <<>>,
                        status |-> r.st.status, value |-> r.id]
             /\ importer' = [net |-> "populated",
                             curModule |-> <<>>,
                             moduleCounter |-> r.st.moduleCounter,
                             addedModules |-> r.st.addedModules,
                             filled |-> r.st.filled]
    /\ calls' = calls + 1
    /\ UNCHANGED <<addedIds, rootModule, parser>>

\* populateNet has made rootModule and starts to read the file
InitImport ==
    /\ impl = NewImpl
    /\ ret = [op |-> "Net", args |-> <<>>, status |-> "ok", value |-> 0]
    /\ calls = 0
    /\ addedIds = <<>>
    /\ rootModule = Module("Sequential", "", NoParams, <<>>)
    /\ importer = [NoImporter EXCEPT !.net = "reading"]
    /\ parser = NoParser

NextImport == ReadModule \/ ReadContainer \/ EndTable \/ PopulateNet

SpecImport == InitImport /\ [][NextImport]_vars

----------------------------------------------------------------------------
(* Properties of the graph-building calls (SpecGraph) *)

\* the output indices of producer P that some pin of the network names
ConsumedOutputs(n, P) ==
    UNION {{n.layers[L].inputBlobsId[i].oid :
               i \in {j \in DOMAIN n.layers[L].inputBlobsId :
                          n.layers[L].inputBlobsId[j].lid = P}} :
           L \in DOMAIN n.layers}

\* C2: after any sequence of addLayer, addLayerToPrev and connect calls,
\* successful or failing, an output index k is in requiredOutputs of a
\* producer P exactly when the pin list of some layer holds the pin (P, k)
C2_RequiredOutputsArePins ==
    \A P \in DOMAIN impl.layers :
        impl.layers[P].requiredOutputs = ConsumedOutputs(impl, P)

\* a connect has just failed on a network that has consumed outputs
C2_Witness ==
    /\ ret.op = "connect" /\ ret.status = "error"
    /\ \E P \in DOMAIN impl.layers : 1 \in impl.layers[P].requiredOutputs
    /\ \E P \in DOMAIN impl.layers : 0 \in impl.layers[P].requiredOutputs

\* C6: the ids addLayer returns are 1, 2, 3, ...: the first is 1 and each
\* later one is one more than the one before; 0 is never returned
C6_IdsCountFromOne == \A i \in DOMAIN addedIds : addedIds[i] = i

\* the name and the layers a call of addLayerToPrev was given
NameIsNew(n, name) == ~HasDot(name) /\ name \notin DOMAIN n.layerNameToId

\* C7: addLayerToPrev with a new valid name succeeds and binds input 0 of the
\* new layer to (p, 0), p being the layer added last; on a network where
\* nothing was added yet it succeeds too and p is a layer that exists
C7_AddLayerToPrevBinds ==
    [][(ret'.op = "addLayerToPrev" /\ NameIsNew(impl, ret'.args[1]))
        => /\ ret'.status = "ok"
           /\ hasLayer(impl', ret'.value)
           /\ Len(impl'.layers[ret'.value].inputBlobsId) = 1
           /\ LET pin == impl'.layers[ret'.value].inputBlobsId[1]
              IN /\ pin.oid = 0
                 /\ hasLayer(impl, pin.lid)
                 /\ addedIds # <<>> => pin.lid = addedIds[Len(addedIds)]]_vars

\* the slot inNum of the consumer is bound to a valid pin other than (out, outNum)
SlotTaken(n, outLayerId, outNum, inLayerId, inNum) ==
    /\ inNum < Len(n.layers[inLayerId].inputBlobsId)
    /\ valid(n.layers[inLayerId].inputBlobsId[inNum + 1])
    /\ n.layers[inLayerId].inputBlobsId[inNum + 1] # LayerPin(outLayerId, outNum)

\* C8: connect between two layers that exist fails exactly when the input
\* slot is bound to a valid pin other than the one given (binding the same
\* pin again is accepted); a connect that fails, on a taken slot or on a
\* layer that does not exist, changes no pin list and no requiredOutputs
C8_ConnectFailsOnTakenSlot ==
    [][ret'.op = "connect"
        => /\ (hasLayer(impl, ret'.args[1]) /\ hasLayer(impl, ret'.args[3]))
                => (ret'.status = "error"
                      <=> SlotTaken(impl, ret'.args[1], ret'.args[2],
                                    ret'.args[3], ret'.args[4]))
           /\ ret'.status = "error" => impl' = impl
           /\ ret'.status = "ok" =>
                 /\ impl'.layers[ret'.args[3]].inputBlobsId[ret'.args[4] + 1]
                       = LayerPin(ret'.args[1], ret'.args[2])
                 /\ ret'.args[2] \in impl'.layers[ret'.args[1]].requiredOutputs]_vars

\* a connect to a taken slot has just failed
C8_Witness ==
    /\ ret.op = "connect" /\ ret.status = "error"
    /\ hasLayer(impl, ret.args[1]) /\ hasLayer(impl, ret.args[3])
    /\ SlotTaken(impl, ret.args[1], ret.args[2], ret.args[3], ret.args[4])

\* C9: addLayer fails for every name with a '.' in it and for every name in
\* use, the name of the input layer included, and succeeds for the others;
\* a failed call adds no layer, registers no name and uses up no id
C9_AddLayerRejectsNames ==
    [][ret'.op = "addLayer"
        => /\ ret'.status = "error" <=> ~NameIsNew(impl, ret'.args[1])
           /\ ret'.status = "error" => impl' = impl
           /\ ret'.status = "ok" =>
                 /\ ret'.value = impl.lastLayerId + 1
                 /\ ~hasLayer(impl, ret'.value)
                 /\ impl'.layerNameToId[ret'.args[1]] = ret'.value
                 /\ DOMAIN impl'.layers = DOMAIN impl.layers \cup {ret'.value}]_vars

\* addLayer has just refused the name of the input layer, after it had
\* refused or accepted others
C9_Witness ==
    /\ ret.op = "addLayer" /\ ret.status = "error"
    /\ ret.args[1] = InputName
    /\ addedIds # <<>>

----------------------------------------------------------------------------
(* Properties of allocation and forward (Spec) *)

\* allocate() or forward() has just returned without an error
SetUpDone == ret.op \in {"allocate", "forward"} /\ ret.status = "ok"

\* the layer of the pin exists and has an output tensor at the pin's index
PinInBounds(n, pin) ==
    /\ hasLayer(n, pin.lid)
    /\ pin.oid >= 0
    /\ pin.oid < Len(n.layers[pin.lid].outputBlobs)

\* C3: when allocate() or forward() has completed without an error, every
\* input pin of every layer names a layer that exists and an output index
\* from 0 up to, not including, that layer's number of outputs; also when
\* only an output index k > 0 of a producer is consumed
C3_PinsValidAfterSetUp ==
    SetUpDone =>
        \A L \in DOMAIN impl.layers :
            \A i \in DOMAIN impl.layers[L].inputBlobsId :
                PinInBounds(impl, impl.layers[L].inputBlobsId[i])

\* output i of layer L has storage, and input i of L is a tensor with as
\* many elements
InPlaceApplies(n, L, i) ==
    /\ n.layers[L].type \in InPlaceTypes
    /\ i \in DOMAIN n.layers[L].outputBlobs
    /\ i \in DOMAIN n.layers[L].inputBlobsId
    /\ PinInBounds(n, n.layers[L].inputBlobsId[i])
    /\ n.layers[L].outputBlobs[i].data # 0
    /\ LET pin == n.layers[L].inputBlobsId[i]
       IN total(n.layers[pin.lid].outputBlobs[pin.oid + 1].shape)
             = total(n.layers[L].outputBlobs[i].shape)

\* C4: while the network is allocated, output i of every layer whose shape
\* inference declares inplace, with as many elements in input i as in
\* output i, has the storage of input i; also after a later setBlob
C4_InPlaceSharesStorage ==
    impl.netWasAllocated =>
        \A L \in DOMAIN impl.layers :
            \A i \in DOMAIN impl.layers[L].outputBlobs :
                InPlaceApplies(impl, L, i) =>
                    LET pin == impl.layers[L].inputBlobsId[i]
                    IN impl.layers[L].outputBlobs[i].data
                          = impl.layers[pin.lid].outputBlobs[pin.oid + 1].data

\* C5: when allocate() or forward() has completed without an error, the
\* network outputs are the layers with no required output, the layers added
\* or connected after an earlier allocation counted
C5_NetOutputsAreUnconsumed ==
    SetUpDone =>
        Range(impl.netOutputs)
            = {id \in DOMAIN impl.layers : impl.layers[id].requiredOutputs = {}}

----------------------------------------------------------------------------
(* Properties of the importer (SpecImport) *)

\* the layers the pins of layer L name
Producers(n, L) ==
    {n.layers[L].inputBlobsId[i].lid : i \in DOMAIN n.layers[L].inputBlobsId}
        \cap DOMAIN n.layers

\* the layers reached from the layers of S along input pins, S included
RECURSIVE Upstream(_, _)
Upstream(n, S) ==
    LET T == S \cup UNION {Producers(n, L) : L \in S}
    IN IF T = S THEN S ELSE Upstream(n, T)

Acyclic(n) == \A L \in DOMAIN n.layers : L \notin Upstream(n, Producers(n, L))

\* C1: for every tree of Sequential, Concat, Parallel, ConcatTable, JoinTable
\* and CAddTable over leaf layers that fill turns into a graph, no layer of
\* the graph is reached from itself along input pins
C1_FillEmitsAcyclicGraph ==
    (ret.op = "populateNet" /\ ret.status = "ok") => Acyclic(impl)

\* the layers with ids after a up to b
IdsBetween(a, b) == {l \in (a + 1)..b : TRUE}

\* the calls of fill noted in the importer
FillCalls == Range(importer.filled)

\* the call that filled child i of the container of call e from the output
\* i of the layer splitId
ChildCalls(e, i, splitId) ==
    {c \in FillCalls : /\ c.module = e.module.modules[i]
                       /\ c.prevLayerId = splitId
                       /\ c.prevOutNum = i - 1
                       /\ c.before >= e.before /\ c.after <= e.after}

\* what a call e of fill on a Concat container has left in the network
ConcatEmitted(n, e) ==
    LET splitId == e.before + 1
        mergeId == e.before + 2
        children == DOMAIN e.module.modules
    IN /\ hasLayer(n, splitId) /\ n.layers[splitId].type = "Split"
       /\ hasLayer(n, mergeId) /\ n.layers[mergeId].type = "Concat"
       /\ n.layers[splitId].inputBlobsId = <<LayerPin(e.prevLayerId, e.prevOutNum)>>
       /\ n.layers[mergeId].params["axis"] = e.module.params["dimension"] - 1
       /\ Len(n.layers[mergeId].inputBlobsId) = Len(e.module.modules)
       /\ \A i \in children :
             \E c \in ChildCalls(e, i, splitId) :
                 n.layers[mergeId].inputBlobsId[i] = LayerPin(c.id, 0)
       /\ IdsBetween(e.before, e.after)
             \ UNION {IdsBetween(c.before, c.after) :
                         c \in UNION {ChildCalls(e, i, splitId) : i \in children}}
          = {splitId, mergeId}
       /\ e.id = mergeId

\* C10: a call of fill on a Concat container that returns has emitted one
\* Split layer with input 0 bound to prevLayerId:prevOutNum and one Concat
\* layer with axis = dimension - 1 and nothing else of its own, has filled
\* child i from output i of the Split, has bound output 0 of the id that
\* call returned to input i of the Concat, and returns the Concat's id
C10_ConcatEmitsSplitAndMerge ==
    \A e \in FillCalls :
        (e.module.thName = "Concat" /\ e.status = "ok") => ConcatEmitted(impl, e)

\* populateNet has returned and a Concat container with two children was filled
C10_Witness ==
    /\ ret.op = "populateNet" /\ ret.status = "ok"
    /\ \E e \in FillCalls :
          /\ e.module.thName = "Concat" /\ e.status = "ok"
          /\ Len(e.module.modules) = 2

\* a ConcatTable whose children are all layers of the API
LeafConcatTable(module) ==
    /\ module.thName = "ConcatTable"
    /\ module.modules # <<>>
    /\ \A i \in DOMAIN module.modules : module.modules[i].apiType # ""

\* the calls <<t, a>> of fill on a ConcatTable of layers and on the CAddTable
\* that follows it in the same Sequential
BranchSums ==
    {p \in FillCalls \X FillCalls :
        /\ LeafConcatTable(p[1].module)
        /\ p[2].module.thName = "CAddTable"
        /\ p[2].before = p[1].after
        /\ p[2].prevLayerId = p[1].id
        /\ \E s \in FillCalls :
              /\ s.module.thName = "Sequential"
              /\ s.before <= p[1].before /\ p[2].after <= s.after
              /\ \E j \in 1..(Len(s.module.modules) - 1) :
                    /\ s.module.modules[j] = p[1].module
                    /\ s.module.modules[j + 1] = p[2].module}

\* C11: where a Sequential holds a ConcatTable of n layers and next a
\* CAddTable, the Eltwise layer emitted for the CAddTable has n inputs, and
\* input i is output 0 of the layer emitted for child i of the ConcatTable
\* (the layers after the Split, in the order of the children)
C11_CAddTableSumsBranches ==
    \A p \in BranchSums :
        p[2].status = "ok" =>
            impl.layers[p[2].id].inputBlobsId =
                [i \in DOMAIN p[1].module.modules |-> LayerPin(p[1].before + 1 + i, 0)]

\* every input of layer L is bound: some pin is there, and each is a valid
\* pin on a layer of the network
InputsConnected(n, L) ==
    /\ n.layers[L].inputBlobsId # <<>>
    /\ \A i \in DOMAIN n.layers[L].inputBlobsId :
          /\ valid(n.layers[L].inputBlobsId[i])
          /\ hasLayer(n, n.layers[L].inputBlobsId[i].lid)

\* C12: when fill has returned for the root, every layer the importer added
\* (every layer but the network input, id 0) has a non-empty pin list whose
\* pins are all valid and on layers of the network
C12_EmittedLayersConnected ==
    (ret.op = "populateNet" /\ ret.status = "ok") =>
        \A L \in DOMAIN impl.layers \ {0} : InputsConnected(impl, L)

\* a call of fill on a SpatialMaxUnpooling whose indices_blob_id is that of no
\* Pooling layer added before it: every pooling layer of the model has
\* indices_blob_id 1, and the layers added before the call are in addedModules
\* with ids up to e.before
UnmatchedUnpooling(e) ==
    /\ e.module.thName = "SpatialMaxUnpooling"
    /\ \A i \in DOMAIN importer.addedModules :
          (/\ importer.addedModules[i].first <= e.before
           /\ importer.addedModules[i].second.apiType = "Pooling")
             => importer.addedModules[i].second.params["indices_blob_id"]
                   # e.module.params["indices_blob_id"]

\* C13: fill on a SpatialMaxUnpooling that finds no pooling layer ends in a
\* reported error, found before anything is read of the partner or added to
\* the network, and returns no layer id
C13_UnmatchedUnpoolingIsAnError ==
    \A e \in FillCalls :
        UnmatchedUnpooling(e) =>
            /\ e.status = "error"
            /\ e.after = e.before
            /\ e.id = -1

----------------------------------------------------------------------------
(* The protobuf parser (modules/protobuf_parser/src): streams and terms.    *)
(* A number read from the wire is the set of the positions of its one bits, *)
(* so that a 64 bit value keeps its width; a byte is an integer 0..255.     *)

\* the one bits of a byte
ByteBits(byte) == {j \in 0..7 : (byte \div (2 ^ j)) % 2 = 1}

\* the one bits of a little-endian block of bytes
BytesBits(block) == UNION {{8 * (i - 1) + j : j \in ByteBits(block[i])} : i \in DOMAIN block}

\* the int a 32 bit value is, from its bits (two's complement)
RECURSIVE SumBits(_)
SumBits(bits) == IF bits = {} THEN 0
                 ELSE Let(CHOOSE b \in bits : TRUE, LAMBDA b : 2 ^ b + SumBits(bits \ {b}))

Int32Of(bits) ==
    IF 31 \in bits THEN (SumBits(bits \cap 0..30) - 2 ^ 30) - 2 ^ 30
    ELSE SumBits(bits \cap 0..30)

\* a std::istream over bytes: the read position, eofbit and failbit; status is
\* "ok" until an exception leaves the reader ("error") or the process is lost
\* ("crash"); reads is the record of the embedded messages read from it
IStream(bytes) == [bytes |-> bytes, pos |-> 0, eof |-> FALSE, fail |-> FALSE,
                   status |-> "ok", reads |-> <<>>]

good(s) == ~s.eof /\ ~s.fail

Throw(s) == [s EXCEPT !.status = "error"]

\* std::istream::read: the stream after it and the bytes it got (gcount of them)
read(s, n) ==
    IF ~good(s) THEN [s |-> [s EXCEPT !.fail = TRUE], got |-> <<>>]
    ELSE IF Len(s.bytes) - s.pos >= n
         THEN [s |-> [s EXCEPT !.pos = @ + n],
               got |-> SubSeq(s.bytes, s.pos + 1, s.pos + n)]
    ELSE [s |-> [s EXCEPT !.pos = Len(s.bytes), !.eof = TRUE, !.fail = TRUE],
          got |-> SubSeq(s.bytes, s.pos + 1, Len(s.bytes))]

\* std::istream::tellg: -1 on a stream that is not good, which it then marks failed
tellg(s) == IF good(s) THEN [s |-> s, pos |-> s.pos]
            ELSE [s |-> [s EXCEPT !.fail = TRUE], pos |-> -1]

\* std::istream::ignore(n)
ignore(s, n) ==
    IF ~good(s) THEN [s EXCEPT !.fail = TRUE]
    ELSE IF n <= 0 THEN s
    ELSE IF Len(s.bytes) - s.pos >= n THEN [s EXCEPT !.pos = @ + n]
    ELSE [s EXCEPT !.pos = Len(s.bytes), !.eof = TRUE]

\* readBinary: all of numBytes or nothing, anything between is an error
readBinary(s, numBytes) ==
    IF s.status # "ok" THEN [s |-> s, got |-> <<>>]
    ELSE Let(read(s, numBytes), LAMBDA r :
           IF Len(r.got) = numBytes \/ Len(r.got) = 0 THEN r
           ELSE [s |-> Throw(r.s), got |-> r.got])

sizeof == [int32 |-> 4, uint32 |-> 4, int64 |-> 8, uint64 |-> 8,
           float |-> 4, double |-> 8, bool |-> 1]

VarintTypes == {"int32", "uint32", "int64", "uint64"}

FixedTypes == {"float", "double", "bool"}

\* the loop of ProtoValue<T>::readVarint and what follows it; byte is the byte
\* read last, res the bits gathered
RECURSIVE VarintLoop(_, _, _, _, _)
VarintLoop(s, byte, bytesRead, read_next_byte, res) ==
    IF s.status # "ok" THEN [s |-> s, res |-> res, bytesRead |-> bytesRead]
    ELSE IF bytesRead < 9 /\ read_next_byte
    THEN Let(res \cup {bytesRead * 7 + j : j \in ByteBits(byte % 128)}, LAMBDA res1 :
           IF byte >= 128
           THEN Let(readBinary(s, 1), LAMBDA r :
                  IF r.got = <<>>
                  THEN [s |-> Throw(r.s), res |-> res1, bytesRead |-> bytesRead]
                  ELSE VarintLoop(r.s, r.got[1], bytesRead + 1, TRUE, res1))
           ELSE VarintLoop(s, byte, bytesRead + 1, FALSE, res1))
    ELSE IF read_next_byte
         THEN [s |-> IF byte >= 128 THEN Throw(s) ELSE s,
               res |-> res, bytesRead |-> bytesRead + 1]
    ELSE [s |-> s, res |-> res, bytesRead |-> bytesRead]

\* ProtoValue<T>::readVarint: the bits of the first maxNumBytes bytes of res
readVarint(s, maxNumBytes) ==
    Let(readBinary(s, 1), LAMBDA r :
    Let(VarintLoop(r.s, IF r.got = <<>> THEN 0 ELSE r.got[1], 0, r.got # <<>>, {}),
        LAMBDA v :
      [s |-> v.s, value |-> v.res \cap 0..(8 * maxNumBytes - 1),
       bytesRead |-> v.bytesRead]))

\* a ProtoValue<T> holding value: bits for a number, bytes for a string
ProtoValue(type, value) == [kind |-> "value", type |-> type, value |-> value]

\* ProtoValue<std::string>::read
ReadString(s, field) ==
    Let(readVarint(s, 4), LAMBDA len :
      IF len.s.status # "ok" THEN [s |-> len.s, field |-> field]
      ELSE IF Int32Of(len.value) < 0 THEN [s |-> Throw(len.s), field |-> field]
      ELSE IF Int32Of(len.value) = 0
           THEN [s |-> len.s, field |-> [field EXCEPT !.value = <<>>]]
      ELSE Let(readBinary(len.s, Int32Of(len.value)), LAMBDA r :
             [s |-> IF r.s.status = "ok" /\ r.got = <<>> THEN Throw(r.s) ELSE r.s,
              field |-> [field EXCEPT !.value = r.got]]))

\* ProtoValue<T>::read(std::istream&) on the field; what readBinary returns is
\* not looked at for float, double and bool: at the end of the stream the
\* value stays as it was
ReadValue(s, field) ==
    IF s.status # "ok" THEN [s |-> s, field |-> field]
    ELSE IF field.type \in VarintTypes
    THEN Let(readVarint(s, sizeof[field.type]), LAMBDA v :
           [s |-> v.s, field |-> [field EXCEPT !.value = v.value]])
    ELSE IF field.type \in FixedTypes
    THEN Let(readBinary(s, sizeof[field.type]), LAMBDA r :
           [s |-> r.s,
            field |-> IF Len(r.got) = sizeof[field.type]
                      THEN [field EXCEPT !.value = BytesBits(r.got)] ELSE field])
    ELSE IF field.type = "string" THEN ReadString(s, field)
    ELSE [s |-> Throw(s), field |-> field]

\* ProtoInt32 number(s): a new value read from the stream, as an int
ReadInt32(s) ==
    Let(readVarint(s, 4), LAMBDA v : [s |-> v.s, value |-> Int32Of(v.value)])

\* a ProtoPackImpl<T> holding values
ProtoPack(type, values) == [kind |-> "pack", type |-> type, values |-> values]

\* what undefined behaviour does in the reader: values[0] of an empty vector
\* stops a checked build, and is a reference nothing reads through otherwise
ParserUB == {[crash |-> TRUE], [crash |-> FALSE]}

\* ProtoPackImpl<T>::read for float, double and bool, numBytes read
ReadFixedPack(s, field, numBytes, ub) ==
    IF numBytes < 0 \/ numBytes % sizeof[field.type] # 0
    THEN [s |-> Throw(s), field |-> field]
    ELSE IF numBytes = 0 /\ ub.crash
    THEN [s |-> [s EXCEPT !.status = "crash"], field |-> field]
    ELSE Let(readBinary(s, numBytes), LAMBDA r :
           [s |-> IF r.s.status = "ok" /\ r.got = <<>> THEN Throw(r.s) ELSE r.s,
            field |-> [field EXCEPT !.values =
                         [i \in 1..(Len(r.got) \div sizeof[field.type]) |->
                             BytesBits(SubSeq(r.got, (i - 1) * sizeof[field.type] + 1,
                                              i * sizeof[field.type]))]]])

\* the loop of ProtoPackImpl<T>::read over varints up to the position end; a
\* stream that is not good reads nothing and tells -1, so the loop never ends
RECURSIVE ReadVarintPack(_, _, _)
ReadVarintPack(s, field, end) ==
    IF s.status # "ok" THEN [s |-> s, field |-> field]
    ELSE Let(tellg(s), LAMBDA t :
           IF t.pos < end
           THEN IF t.pos = -1
                THEN [s |-> [t.s EXCEPT !.status = "crash"], field |-> field]
                ELSE Let(readVarint(t.s, sizeof[field.type]), LAMBDA v :
                       ReadVarintPack(v.s, [field EXCEPT !.values = Append(@, v.value)],
                                      end))
           ELSE [s |-> t.s, field |-> field])

\* ProtoPackImpl<T>::read(std::istream&)
ReadPack(s, field, ub) ==
    IF s.status # "ok" THEN [s |-> s, field |-> field]
    ELSE Let(ReadInt32(s), LAMBDA numBytes :
           IF numBytes.s.status # "ok" THEN [s |-> numBytes.s, field |-> field]
           ELSE IF field.type \in FixedTypes
                THEN ReadFixedPack(numBytes.s, [field EXCEPT !.values = <<>>],
                                   numBytes.value, ub)
           ELSE IF numBytes.value < 0
                THEN [s |-> Throw(numBytes.s), field |-> field]
           ELSE Let(tellg(numBytes.s), LAMBDA t :
                Let(ReadVarintPack(t.s, [field EXCEPT !.values = <<>>],
                                   t.pos + numBytes.value), LAMBDA r :
                  IF r.s.status # "ok" THEN r
                  ELSE Let(tellg(r.s), LAMBDA u :
                         [s |-> IF u.pos = t.pos + numBytes.value THEN u.s
                                ELSE Throw(u.s),
                          field |-> r.field]))))

----------------------------------------------------------------------------
(* The terms as a state machine: a stream is written byte by byte, then a  *)
(* ProtoValue<T> or a ProtoPackImpl<T> is read from its start              *)

\* the longest varint written to the stream, in bytes
MaxVarintBytes == 10
\* the number of bytes written after the first varint
MaxPayloadBytes == 1

\* the bytes written: 0x00, 0x01, 0x7f end a varint, 0x80 and 0xff go on
WireBytes == {0, 1, 127, 128, 255}

\* the index of the byte that ends the varint at the start of bytes, or 0
VarintEnd(bytes) ==
    IF \A i \in DOMAIN bytes : bytes[i] >= 128 THEN 0
    ELSE MinOf({i \in DOMAIN bytes : bytes[i] < 128})

netVars == <<impl, ret, calls, addedIds, rootModule, importer>>

\* one more byte of the stream
PutByte ==
    /\ parser.stage = "stream"
    /\ IF VarintEnd(parser.bytes) = 0 THEN Len(parser.bytes) < MaxVarintBytes
       ELSE Len(parser.bytes) - VarintEnd(parser.bytes) < MaxPayloadBytes
    /\ \E byte \in WireBytes : parser' = [parser EXCEPT !.bytes = Append(@, byte)]
    /\ UNCHANGED netVars

\* ProtoValue<T> value(s)
ReadProtoValue ==
    /\ parser.stage = "stream"
    /\ \E type \in VarintTypes \cup FixedTypes \cup {"string"} :
       \E r \in {ReadValue(IStream(parser.bytes),
                           ProtoValue(type, IF type = "string" THEN <<>> ELSE {}))} :
          parser' = [stage |-> "read", bytes |-> parser.bytes, op |-> "value",
                     type |-> type, s |-> r.s, field |-> r.field]
    /\ UNCHANGED netVars

\* ProtoPack::create<T>()->read(s)
ReadProtoPack ==
    /\ parser.stage = "stream"
    /\ \E type \in VarintTypes \cup FixedTypes, ub \in ParserUB :
       \E r \in {ReadPack(IStream(parser.bytes), ProtoPack(type, <<>>), ub)} :
          parser' = [stage |-> "read", bytes |-> parser.bytes, op |-> "pack",
                     type |-> type, s |-> r.s, field |-> r.field]
    /\ UNCHANGED netVars

InitTerms ==
    /\ impl = NewImpl
    /\ ret = [op |-> "Net", args |-> <<>>, status |-> "ok", value |-> 0]
    /\ calls = 0
    /\ addedIds = <<>>
    /\ rootModule = <<>>
    /\ importer = NoImporter
    /\ parser = [stage |-> "stream", bytes |-> <<>>]

NextTerms == PutByte \/ ReadProtoValue \/ ReadProtoPack

SpecTerms == InitTerms /\ [][NextTerms]_vars

----------------------------------------------------------------------------
(* Properties of the terms (SpecTerms) *)

\* the bits the bytes of a varint carry: 7 of each byte, the first byte lowest
WireBits(bytes) ==
    UNION {{7 * (i - 1) + j : j \in ByteBits(bytes[i] % 128)} : i \in DOMAIN bytes}

\* a varint of the type was read from a stream that starts with a whole varint
VarintWasRead ==
    /\ parser.stage = "read" /\ parser.op = "value"
    /\ parser.type \in VarintTypes
    /\ VarintEnd(parser.bytes) \in 1..10

\* C15: reading a varint of k bytes, 1 <= k <= 10, returns after the k bytes
\* with the value whose bits are the 7 data bits of each of the k bytes, the
\* first byte lowest, cut to the width of the type
C15_VarintDecodesAllBytes ==
    VarintWasRead =>
        /\ parser.s.status = "ok"
        /\ parser.s.pos = VarintEnd(parser.bytes)
        /\ parser.field.value =
              WireBits(SubSeq(parser.bytes, 1, VarintEnd(parser.bytes)))
                 \cap 0..(8 * sizeof[parser.type] - 1)

\* C17: reading a varint from a stream that ends before a byte with a clear
\* continuation bit, after no byte at all or after continuation bytes, ends
\* in an error
C17_TruncatedVarintIsAnError ==
    (/\ parser.stage = "read" /\ parser.op = "value"
     /\ parser.type \in VarintTypes
     /\ VarintEnd(parser.bytes) = 0)
        => parser.s.status = "error"

\* C18: reading a packed field of any primitive type whose length is 0
\* returns with the length byte alone consumed and a list of size 0
C18_EmptyPackIsRead ==
    (/\ parser.stage = "read" /\ parser.op = "pack"
     /\ parser.bytes # <<>> /\ parser.bytes[1] = 0)
        => /\ parser.s.status = "ok"
           /\ parser.s.pos = 1
           /\ parser.field.values = <<>>

----------------------------------------------------------------------------
(* The protobuf parser: messages (proto_message.cpp) and enums.  A map of  *)
(* the code is a function, the empty map the function with no argument.    *)

\* map[k] = v
Put(map, k, v) == [x \in DOMAIN map \cup {k} |-> IF x = k THEN v ELSE map[x]]

\* int msgEnd = INT_MAX
IntMax == 2147483647

\* new ProtobufMessage()
NewMessage == [kind |-> "message", fieldByTag |-> <<>>, fieldByName |-> <<>>,
               nameByTag |-> <<>>, readFields |-> <<>>,
               fieldsWithDefaultValue |-> <<>>]

\* addField that fills the table by tag alone
addField_TagOnly(message, field, name, tag, hasDefaultValue) ==
    [message EXCEPT
        !.fieldByTag = Put(@, tag, field),
        !.nameByTag = Put(@, tag, name),
        !.readFields = Put(@, name, <<>>),
        !.fieldsWithDefaultValue = IF hasDefaultValue THEN Put(@, name, field) ELSE @]

\* ProtobufMessage::addField(field, name, tag, hasDefaultValue)
addField(message, field, name, tag, hasDefaultValue) ==
    [message EXCEPT
        !.fieldByTag = Put(@, tag, field),
        !.fieldByName = Put(@, name, field),
        !.nameByTag = Put(@, tag, name),
        !.readFields = Put(@, name, <<>>),
        !.fieldsWithDefaultValue = IF hasDefaultValue THEN Put(@, name, field) ELSE @]

\* new ProtoEnum(packed) with its values; value is the name read or the default
ProtoEnum(packed, enumValues, value) ==
    [kind |-> "enum", packed |-> packed, enumValues |-> enumValues, value |-> value]

\* field->clone(): ProtoValue<T>::clone, ProtoPackImpl<T>::clone,
\* ProtoEnum::clone, ProtobufMessage::clone (readFields is not copied)
clone(field) ==
    CASE field.kind = "value" ->
            ProtoValue(field.type, IF field.type = "string" THEN <<>> ELSE {})
      [] field.kind = "pack" -> ProtoPack(field.type, <<>>)
      [] field.kind = "enum" -> ProtoEnum(field.packed, field.enumValues, "")
      [] field.kind = "message" -> [field EXCEPT !.readFields = <<>>]

\* tag = key >> 3 of the int the key is
KeyTag(bits) ==
    SumBits({b - 3 : b \in bits \cap 3..30}) - (IF 31 \in bits THEN 2 ^ 28 ELSE 0)

\* parseKey: tag and wireType are set only when the stream is not at its end
parseKey(s) ==
    Let(readVarint(s, 4), LAMBDA keyValue :
      IF keyValue.s.status # "ok" \/ keyValue.s.eof
      THEN [s |-> keyValue.s, tag |-> 0, wireType |-> 0]
      ELSE Let(KeyTag(keyValue.value), LAMBDA tag :
           Let(SumBits(keyValue.value \cap 0..2), LAMBDA wireType :
             [s |-> IF tag <= 0 \/ wireType \notin {0, 1, 2, 5}
                    THEN Throw(keyValue.s) ELSE keyValue.s,
              tag |-> tag, wireType |-> wireType])))

\* ProtoEnum::read(std::istream&)
ReadEnum(s, field, ub) ==
    IF s.status # "ok" THEN [s |-> s, field |-> field]
    ELSE IF field.packed
    THEN Let(ReadPack(s, ProtoPack("int32", <<>>), ub), LAMBDA pp :
           IF pp.s.status # "ok" THEN [s |-> pp.s, field |-> field]
           ELSE IF pp.field.values = <<>> THEN [s |-> Throw(pp.s), field |-> field]
           ELSE Let(Int32Of(pp.field.values[Len(pp.field.values)]), LAMBDA id :
                  IF id \in DOMAIN field.enumValues
                  THEN [s |-> pp.s, field |-> [field EXCEPT !.value = field.enumValues[id]]]
                  ELSE [s |-> Throw(pp.s), field |-> field]))
    ELSE Let(ReadInt32(s), LAMBDA number :
           IF number.s.status # "ok" THEN [s |-> number.s, field |-> field]
           ELSE IF number.value \in DOMAIN field.enumValues
                THEN [s |-> number.s,
                      field |-> [field EXCEPT !.value = field.enumValues[number.value]]]
           ELSE [s |-> Throw(number.s), field |-> field])

\* ProtobufMessage::read: the bytes of a field with a tag not in fieldByTag
SkipField(s, wireType) ==
    CASE wireType = 0 -> readVarint(s, 8).s
      [] wireType = 1 -> ignore(s, 8)
      [] wireType = 2 ->
            Let(ReadInt32(s), LAMBDA skip :
              IF skip.s.status # "ok" THEN skip.s ELSE ignore(skip.s, skip.value))
      [] wireType = 5 -> ignore(s, 4)

\* readFields[name].push_back(copy), or a list of one
PushField(message, name, copy) ==
    [message EXCEPT !.readFields =
        Put(@, name, IF name \in DOMAIN @ THEN Append(@[name], copy) ELSE <<copy>>)]

\* the end of ProtobufMessage::read: the assertion on the position, and the
\* record of the read of an embedded message (payload offset p, length L)
EndRead(r, isEmbedded, msgEnd, p, L) ==
    Let(IF r.s.status = "ok" /\ isEmbedded /\ ~r.s.eof /\ tellg(r.s).pos # msgEnd
        THEN Throw(r.s) ELSE r.s, LAMBDA s1 :
      [s |-> IF isEmbedded
             THEN [s1 EXCEPT !.reads = Append(@, [p |-> p, L |-> L, pos |-> s1.pos,
                                                 eof |-> s1.eof, status |-> s1.status])]
             ELSE s1,
       field |-> r.field])

RECURSIVE ReadLoop(_, _, _, _)
RECURSIVE ReadMessage(_, _, _)

\* copy->read(s) by the class of the field
ReadField(s, field, ub) ==
    CASE field.kind = "value" -> ReadValue(s, field)
      [] field.kind = "pack" -> ReadPack(s, field, ub)
      [] field.kind = "enum" -> ReadEnum(s, field, ub)
      [] field.kind = "message" -> ReadMessage(s, field, ub)

\* the loop of ProtobufMessage::read(std::istream&)
ReadLoop(s, message, msgEnd, ub) ==
    IF s.status # "ok" THEN [s |-> s, field |-> message]
    ELSE Let(tellg(s), LAMBDA t :
      IF ~(t.pos < msgEnd) THEN [s |-> t.s, field |-> message]
      ELSE Let(parseKey(t.s), LAMBDA key :
        IF key.s.status # "ok" \/ key.s.eof THEN [s |-> key.s, field |-> message]
        ELSE IF key.tag \in DOMAIN message.fieldByTag
        THEN Let(ReadField(key.s, clone(message.fieldByTag[key.tag]), ub), LAMBDA r :
               ReadLoop(r.s, PushField(message, message.nameByTag[key.tag], r.field),
                        msgEnd, ub))
        ELSE ReadLoop(SkipField(key.s, key.wireType), message, msgEnd, ub)))

\* ProtobufMessage::read(std::istream&)
ReadMessage(s, message, ub) ==
    IF s.status # "ok" THEN [s |-> s, field |-> message]
    ELSE Let(tellg(s), LAMBDA t :
      IF t.pos # 0
      THEN Let(ReadInt32(t.s), LAMBDA numBytes :
             IF numBytes.s.status # "ok"
             THEN [s |-> numBytes.s, field |-> [message EXCEPT !.readFields = <<>>]]
             ELSE Let(tellg(numBytes.s), LAMBDA u :
                    EndRead(ReadLoop(u.s, [message EXCEPT !.readFields = <<>>],
                                     u.pos + numBytes.value, ub),
                            TRUE, u.pos + numBytes.value, u.pos, numBytes.value)))
      ELSE EndRead(ReadLoop(t.s, [message EXCEPT !.readFields = <<>>], IntMax, ub),
                   FALSE, IntMax, 0, 0))

\* ProtobufMessage::operator[](name): the list a ProtobufNode is made of
MessageAt(message, name) ==
    IF name \in DOMAIN message.readFields THEN message.readFields[name]
    ELSE IF name \in DOMAIN message.fieldsWithDefaultValue
         THEN <<message.fieldsWithDefaultValue[name]>>
    ELSE <<>>

\* ProtobufMessage::has
has(message, name) == name \in DOMAIN message.readFields

\* ProtobufMessage::remove(name, idx): [status, message]
remove(message, name, idx) ==
    IF name \notin DOMAIN message.readFields
    THEN [status |-> "error", message |-> message]
    ELSE IF ~(0 <= idx /\ idx < Len(message.readFields[name]))
    THEN [status |-> "error", message |-> message]
    ELSE [status |-> "ok",
          message |-> [message EXCEPT !.readFields[name] =
                          SubSeq(@, 1, idx) \o SubSeq(@, idx + 2, Len(@))]]

----------------------------------------------------------------------------
(* Schema compilation (protobuf_parser.cpp, proto_descriptors.cpp).  The   *)
(* type nodes are the map extractTypeNodes fills: a message node is        *)
(* [kind, field], an enum node [kind, value]; a field node has name,       *)
(* number, type, label, type_name, default_value ("" where the node has    *)
(* none) and packed (options.packed).                                      *)

\* typeNameById; "" where the id is not one of the switch
typeNameById(id) ==
    CASE id = 1 -> "double" [] id = 2 -> "float" [] id = 3 -> "int64"
      [] id = 4 -> "uint64" [] id = 5 -> "int32" [] id = 8 -> "bool"
      [] id \in {9, 12} -> "string" [] id = 11 -> "message"
      [] id = 13 -> "uint32" [] id = 14 -> "enum" [] OTHER -> ""

\* labelById; "" where the id is not one of the switch
labelById(id) ==
    CASE id = 1 -> "optional" [] id = 2 -> "required" [] id = 3 -> "repeated"
      [] OTHER -> ""

\* the one bits of a non-negative int
IntBits(n) == {j \in 0..30 : (n \div (2 ^ j)) % 2 = 1}

\* std::stringstream ss(str); ss >> value, on the numerals the schemas use;
\* 1 as a float is 0x3f800000, as a double 0x3ff0000000000000; a text that is
\* no number leaves 0
StreamExtract(type, str) ==
    Let(CASE str = "0" -> 0 [] str = "1" -> 1 [] str = "5" -> 5 [] str = "7" -> 7
          [] OTHER -> -1, LAMBDA n :
      IF n < 0 THEN {}
      ELSE IF type = "float" THEN (IF n = 1 THEN 23..29 ELSE {})
      ELSE IF type = "double" THEN (IF n = 1 THEN 52..61 ELSE {})
      ELSE IntBits(n))

\* valueFromString<T>: [status, value]
valueFromString(type, str) ==
    IF type = "string" THEN [status |-> "ok", value |-> str]
    ELSE IF str = "" THEN [status |-> "ok", value |-> {}]
    ELSE IF type # "bool" THEN [status |-> "ok", value |-> StreamExtract(type, str)]
    ELSE IF str = "true" THEN [status |-> "ok", value |-> {0}]
    ELSE IF str = "false" THEN [status |-> "ok", value |-> {}]
    ELSE [status |-> "error", value |-> {}]

\* createField(type, defaultValue, packed): [status, field]
createField(type, defaultValue, packed) ==
    IF type \in VarintTypes \cup FixedTypes
    THEN IF packed THEN [status |-> "ok", field |-> ProtoPack(type, <<>>)]
         ELSE Let(valueFromString(type, defaultValue), LAMBDA v :
                [status |-> v.status, field |-> ProtoValue(type, v.value)])
    ELSE IF type = "string"
         THEN [status |-> "ok", field |-> ProtoValue("string", defaultValue)]
    ELSE [status |-> "error", field |-> <<>>]

\* ProtoEnum::addValue over the values of an enum node: the map, or an error
\* where a number comes twice
RECURSIVE AddValues(_, _, _)
AddValues(values, i, enumValues) ==
    IF i > Len(values) THEN [status |-> "ok", enumValues |-> enumValues]
    ELSE IF values[i].number \in DOMAIN enumValues
         THEN [status |-> "error", enumValues |-> enumValues]
    ELSE AddValues(values, i + 1, Put(enumValues, values[i].number, values[i].name))

\* enumNode["value"], messageNode["field"]: the list read under the name,
\* empty where the node has none
NodeAt(node, name) ==
    IF name = "value" /\ node.kind = "enum" THEN node.value
    ELSE IF name = "field" /\ node.kind = "message" THEN node.field
    ELSE <<>>

\* buildEnum: [status, field]
buildEnum(name, typeNodes, defaultValue, packed) ==
    IF name \notin DOMAIN typeNodes
    THEN [status |-> "error", field |-> <<>>]
    ELSE Let(AddValues(NodeAt(typeNodes[name], "value"), 1, <<>>), LAMBDA v :
           [status |-> v.status, field |-> ProtoEnum(packed, v.enumValues, defaultValue)])

\* bool packed = ... of buildMessage: [status, packed]
IsPacked(fieldNode, proto3) ==
    IF fieldNode.packed THEN [status |-> "ok", packed |-> TRUE]
    ELSE IF ~proto3 THEN [status |-> "ok", packed |-> FALSE]
    ELSE IF labelById(fieldNode.label) = "" THEN [status |-> "error", packed |-> FALSE]
    ELSE [status |-> "ok", packed |-> labelById(fieldNode.label) = "repeated"]

RECURSIVE BuildFields(_, _, _, _, _)
RECURSIVE buildMessage(_, _, _, _)

\* the field of buildMessage for fieldNode: [status, field, builtMessages]
BuildField(fieldNode, typeNodes, builtMessages, proto3) ==
    Let(IF fieldNode.type_name # "" THEN fieldNode.type_name
        ELSE typeNameById(fieldNode.type), LAMBDA fieldType :
    Let(IsPacked(fieldNode, proto3), LAMBDA p :
      IF typeNameById(fieldNode.type) = "" \/ p.status # "ok"
      THEN [status |-> "error", field |-> <<>>, builtMessages |-> builtMessages]
      ELSE IF typeNameById(fieldNode.type) = "message"
      THEN buildMessage(fieldType, typeNodes, builtMessages, proto3)
      ELSE IF typeNameById(fieldNode.type) = "enum"
      THEN Let(buildEnum(fieldType, typeNodes, fieldNode.default_value, p.packed),
               LAMBDA e : [status |-> e.status, field |-> e.field,
                           builtMessages |-> builtMessages])
      ELSE Let(createField(fieldType, fieldNode.default_value, p.packed),
               LAMBDA f : [status |-> f.status, field |-> f.field,
                           builtMessages |-> builtMessages])))

\* the loop of buildMessage over the fields of the node, from field i on; the
\* message being built is builtMessages[name], the object the memo points to
BuildFields(name, typeNodes, builtMessages, proto3, i) ==
    IF i > Len(NodeAt(typeNodes[name], "field"))
    THEN [status |-> "ok", field |-> builtMessages[name], builtMessages |-> builtMessages]
    ELSE Let(NodeAt(typeNodes[name], "field")[i], LAMBDA fieldNode :
         Let(BuildField(fieldNode, typeNodes, builtMessages, proto3), LAMBDA b :
           IF b.status # "ok" THEN b
           ELSE BuildFields(name, typeNodes,
                    Put(b.builtMessages, name,
                        addField(b.builtMessages[name], b.field, fieldNode.name,
                                 fieldNode.number, fieldNode.default_value # "")),
                    proto3, i + 1)))

\* buildMessage: [status, field, builtMessages]; a message built or being
\* built is not built again, a clone of it is returned
buildMessage(name, typeNodes, builtMessages, proto3) ==
    IF name \in DOMAIN builtMessages
    THEN [status |-> "ok", field |-> clone(builtMessages[name]),
          builtMessages |-> builtMessages]
    ELSE IF name \notin DOMAIN typeNodes
    THEN [status |-> "error", field |-> <<>>, builtMessages |-> builtMessages]
    ELSE BuildFields(name, typeNodes, Put(builtMessages, name, NewMessage), proto3, 1)

----------------------------------------------------------------------------
(* The parser as a state machine: a schema is compiled for its root        *)
(* message, a binary message is put together field by field, and is parsed *)

\* the fields of a binary message, at the top and inside an embedded message
MaxItems == 2
MaxInner == 2
\* the bytes a stream may lack at its end
MaxCut == 1

FieldNode(name, number, type, label, type_name, default_value, packed) ==
    [name |-> name, number |-> number, type |-> type, label |-> label,
     type_name |-> type_name, default_value |-> default_value, packed |-> packed]

MessageNode(field) == [kind |-> "message", field |-> field]

EnumNode(value) == [kind |-> "enum", value |-> value]

\* the descriptor sets: in every message type tag 1 is a varint, tag 2 a
\* message and tag 3 a bool or an enum; tag 5 is never sent
PlainSchema ==
    [msg |-> ".A", proto3 |-> FALSE,
     typeNodes |->
        ".A" :> MessageNode(<<FieldNode("a", 1, 5, 1, "", "5", FALSE),
                              FieldNode("c", 2, 11, 1, ".B", "", FALSE),
                              FieldNode("flag", 3, 8, 1, "", "true", FALSE)>>)
     @@ ".B" :> MessageNode(<<FieldNode("x", 1, 5, 1, "", "7", FALSE),
                              FieldNode("flag", 3, 8, 1, "", "", FALSE)>>)]

\* message A { optional A child = 2; optional int32 a = 1 [default = 5]; ... }
SelfFirstSchema ==
    [msg |-> ".A", proto3 |-> FALSE,
     typeNodes |->
        ".A" :> MessageNode(<<FieldNode("child", 2, 11, 1, ".A", "", FALSE),
                              FieldNode("a", 1, 5, 1, "", "5", FALSE),
                              FieldNode("flag", 3, 8, 1, "", "", FALSE)>>)]

\* message A { optional int32 a = 1 [default = 5]; E e = 3; optional A child = 2; }
SelfLastSchema ==
    [msg |-> ".A", proto3 |-> FALSE,
     typeNodes |->
        ".A" :> MessageNode(<<FieldNode("a", 1, 5, 1, "", "5", FALSE),
                              FieldNode("e", 3, 14, 1, ".E", "ON", FALSE),
                              FieldNode("child", 2, 11, 1, ".A", "", FALSE)>>)
     @@ ".E" :> EnumNode(<<[name |-> "OFF", number |-> 0],
                           [name |-> "ON", number |-> 1]>>)]

\* message A { optional B c = 2; ... }  message B { ...; optional A back = 2; }
CycleSchema ==
    [msg |-> ".A", proto3 |-> FALSE,
     typeNodes |->
        ".A" :> MessageNode(<<FieldNode("c", 2, 11, 1, ".B", "", FALSE),
                              FieldNode("a", 1, 13, 1, "", "5", FALSE)>>)
     @@ ".B" :> MessageNode(<<FieldNode("x", 1, 3, 1, "", "7", FALSE),
                              FieldNode("back", 2, 11, 1, ".A", "", FALSE)>>)]

\* syntax = "proto3": a repeated field is packed
Proto3Schema ==
    [msg |-> ".A", proto3 |-> TRUE,
     typeNodes |->
        ".A" :> MessageNode(<<FieldNode("a", 1, 5, 1, "", "", FALSE),
                              FieldNode("w", 5, 2, 3, "", "", FALSE),
                              FieldNode("c", 2, 11, 3, ".B", "", FALSE)>>)
     @@ ".B" :> MessageNode(<<FieldNode("x", 1, 4, 1, "", "", FALSE),
                              FieldNode("s", 5, 9, 3, "", "", FALSE)>>)]

\* a type name that is in no file
MissingTypeSchema ==
    [msg |-> ".A", proto3 |-> FALSE,
     typeNodes |->
        ".A" :> MessageNode(<<FieldNode("a", 1, 5, 1, "", "5", FALSE),
                              FieldNode("c", 2, 11, 1, ".Missing", "", FALSE)>>)]

Schemas == <<PlainSchema, SelfFirstSchema, SelfLastSchema, CycleSchema,
             Proto3Schema, MissingTypeSchema>>

\* a field on the wire, key and payload: tag 1 as a varint, tag 3 as a varint,
\* tag 15 (in no schema) in each wire type, and tag 2^28 (in no schema)
Leaf(tag, bytes) == [kind |-> "leaf", tag |-> tag, bytes |-> bytes]

BigTag == 268435456

Leaves ==
    {Leaf(1, <<8, 1>>), Leaf(3, <<24, 1>>),
     Leaf(15, <<120, 1>>), Leaf(15, <<121, 1, 2, 3, 4, 5, 6, 7, 8>>),
     Leaf(15, <<122, 1, 7>>), Leaf(15, <<125, 1, 2, 3, 4>>),
     Leaf(BigTag, <<128, 128, 128, 128, 8, 1>>)}

\* an embedded message under the tag: its fields, and what its length says
\* more than their bytes are
Embedded(tag, items, delta) ==
    [kind |-> "msg", tag |-> tag, items |-> items, delta |-> delta]

RECURSIVE EncodeLeaves(_)
EncodeLeaves(leaves) ==
    IF leaves = <<>> THEN <<>> ELSE Head(leaves).bytes \o EncodeLeaves(Tail(leaves))

DeclaredLength(item) == Max(0, Len(EncodeLeaves(item.items)) + item.delta)

EncodeItem(item) ==
    IF item.kind = "leaf" THEN item.bytes
    ELSE <<8 * item.tag + 2, DeclaredLength(item)>> \o EncodeLeaves(item.items)

RECURSIVE Encode(_)
Encode(items) ==
    IF items = <<>> THEN <<>> ELSE EncodeItem(Head(items)) \o Encode(Tail(items))

\* ProtobufParser::ProtobufParser: the root message is built from the type nodes
Compile ==
    /\ parser.stage = "schema"
    /\ \E b \in {buildMessage(parser.schema.msg, parser.schema.typeNodes, <<>>,
                              parser.schema.proto3)} :
          parser' = [stage |-> "compiled", schema |-> parser.schema,
                     status |-> b.status, message |-> b.field, items |-> <<>>]
    /\ UNCHANGED netVars

\* one more field at the end of the binary message
AddItem ==
    /\ parser.stage = "compiled" /\ parser.status = "ok"
    /\ Len(parser.items) < MaxItems
    /\ \E item \in Leaves \cup {Embedded(2, <<>>, delta) : delta \in {-1, 0}} :
          parser' = [parser EXCEPT !.items = Append(@, item)]
    /\ UNCHANGED netVars

\* one more field at the end of the embedded message that ends the message
AddInner ==
    /\ parser.stage = "compiled" /\ parser.status = "ok"
    /\ parser.items # <<>>
    /\ parser.items[Len(parser.items)].kind = "msg"
    /\ Len(parser.items[Len(parser.items)].items) < MaxInner
    /\ \E leaf \in Leaves :
          parser' = [parser EXCEPT !.items[Len(parser.items)].items = Append(@, leaf)]
    /\ UNCHANGED netVars

\* ProtobufParser::parse(filePath, false): the root message reads the file
ParseBinary ==
    /\ parser.stage = "compiled" /\ parser.status = "ok"
    /\ \E cut \in 0..MaxCut, ub \in ParserUB :
          /\ cut <= Len(Encode(parser.items))
          /\ \E bytes \in {SubSeq(Encode(parser.items), 1,
                                  Len(Encode(parser.items)) - cut)} :
             \E r \in {ReadMessage(IStream(bytes), parser.message, ub)} :
                parser' = [stage |-> "parsed", schema |-> parser.schema,
                           message |-> parser.message, items |-> parser.items,
                           cut |-> cut, bytes |-> bytes, s |-> r.s, root |-> r.field]
    /\ UNCHANGED netVars

InitParse ==
    /\ impl = NewImpl
    /\ ret = [op |-> "Net", args |-> <<>>, status |-> "ok", value |-> 0]
    /\ calls = 0
    /\ addedIds = <<>>
    /\ rootModule = <<>>
    /\ importer = NoImporter
    /\ \E k \in DOMAIN Schemas : parser = [stage |-> "schema", schema |-> Schemas[k]]

NextParse == Compile \/ AddItem \/ AddInner \/ ParseBinary

SpecParse == InitParse /\ [][NextParse]_vars

----------------------------------------------------------------------------
(* Schemas put together field by field: the message types .A and .B, with  *)
(* the fields f (tag 1) and g (tag 2) declared in any order, any number of *)
(* times up to MaxDecl, as an int32 with or without a default, a bool with *)
(* a default, an enum or a message of either type; .A is compiled and      *)
(* reads a short message                                                   *)

MaxDecl == 2

\* the declarations of a field
FieldDecls ==
    {FieldNode(d[1], IF d[1] = "f" THEN 1 ELSE 2, 5, 1, "", d[2], FALSE) :
        d \in {"f", "g"} \X {"", "5"}}
    \cup {FieldNode(d[1], IF d[1] = "f" THEN 1 ELSE 2, 11, 1, d[2], "", FALSE) :
        d \in {"f", "g"} \X {".A", ".B"}}
    \cup {FieldNode("f", 1, 8, 1, "", "true", FALSE),
          FieldNode("g", 2, 14, 1, ".E", "ON", FALSE)}

\* the messages read: nothing, field 1 alone, an embedded message under tag 2
\* that is empty or holds field 1, and an empty one under tag 1
ShortMessages ==
    {<<>>, <<Leaf(1, <<8, 1>>)>>, <<Embedded(2, <<>>, 0)>>,
     <<Embedded(2, <<Leaf(1, <<8, 1>>)>>, 0)>>, <<Embedded(1, <<>>, 0)>>}

\* one more field in the descriptor of a message type
DeclareField ==
    /\ parser.stage = "schema"
    /\ \E name \in {".A", ".B"}, fieldNode \in FieldDecls :
          /\ Len(parser.schema.typeNodes[name].field) < MaxDecl
          /\ parser' = [parser EXCEPT !.schema.typeNodes[name].field =
                                         Append(@, fieldNode)]
    /\ UNCHANGED netVars

\* ProtobufParser::parse(filePath, false) on one of the short messages
ParseShort ==
    /\ parser.stage = "compiled" /\ parser.status = "ok"
    /\ \E items \in ShortMessages, ub \in ParserUB :
       \E r \in {ReadMessage(IStream(Encode(items)), parser.message, ub)} :
          parser' = [stage |-> "parsed", schema |-> parser.schema,
                     message |-> parser.message, items |-> items,
                     cut |-> 0, bytes |-> Encode(items), s |-> r.s, root |-> r.field]
    /\ UNCHANGED netVars

\* the names remove and has are called with: the fields f and g, and a name
\* no type declares
FieldNames == {"f", "g", "h"}

\* ProtobufParser::remove(name, idx) after a parse
Remove ==
    /\ parser.stage \in {"parsed", "removed"}
    /\ \E name \in FieldNames, idx \in {0, 1} :
       \E r \in {remove(parser.root, name, idx)} :
          parser' = [stage |-> "removed", schema |-> parser.schema,
                     message |-> parser.message, items |-> parser.items,
                     cut |-> parser.cut, bytes |-> parser.bytes, s |-> parser.s,
                     root |-> r.message]
    /\ UNCHANGED netVars

InitSchema ==
    /\ impl = NewImpl
    /\ ret = [op |-> "Net", args |-> <<>>, status |-> "ok", value |-> 0]
    /\ calls = 0
    /\ addedIds = <<>>
    /\ rootModule = <<>>
    /\ importer = NoImporter
    /\ parser = [stage |-> "schema",
                 schema |-> [msg |-> ".A", proto3 |-> FALSE,
                             typeNodes |->
                                ".A" :> MessageNode(<<>>)
                             @@ ".B" :> MessageNode(<<>>)
                             @@ ".E" :> EnumNode(<<[name |-> "OFF", number |-> 0],
                                                   [name |-> "ON", number |-> 1]>>)]]

NextSchema == DeclareField \/ Compile \/ ParseShort \/ Remove

SpecSchema == InitSchema /\ [][NextSchema]_vars

----------------------------------------------------------------------------
(* Properties of schema compilation (SpecSchema) *)

\* the fields the descriptor of the message type declares
DeclaredFields(schema, name) == Range(NodeAt(schema.typeNodes[name], "field"))

\* the message types the fields of the type name
RefersTo(schema, name) ==
    {fieldNode.type_name : fieldNode \in
        {f \in DeclaredFields(schema, name) : typeNameById(f.type) = "message"}}

\* C20: compiling a descriptor set for its root message, also where message
\* types refer to themselves or to each other in a cycle, returns, without an
\* error, a message whose table of fields by name has exactly the names the
\* descriptor of the root declares (and whose table by tag has their tags)
C20_CompiledRootHasDeclaredFields ==
    parser.stage = "compiled" =>
        /\ parser.status = "ok"
        /\ DOMAIN parser.message.fieldByName =
              {f.name : f \in DeclaredFields(parser.schema, parser.schema.msg)}
        /\ DOMAIN parser.message.fieldByTag =
              {f.number : f \in DeclaredFields(parser.schema, parser.schema.msg)}
        /\ Range(parser.message.nameByTag) = DOMAIN parser.message.fieldByName

\* a schema compiled where .A refers to itself and to .B, and .B back to .A
C20_Witness ==
    /\ parser.stage = "compiled" /\ parser.status = "ok"
    /\ RefersTo(parser.schema, ".A") = {".A", ".B"}
    /\ ".A" \in RefersTo(parser.schema, ".B")
    /\ DOMAIN parser.message.fieldByName = {"f", "g"}

----------------------------------------------------------------------------
(* Properties of the defaults (SpecSchema) *)

\* the tags of the fields of a binary message, or of an embedded one
TagsOf(items) == {items[i].tag : i \in DOMAIN items}

\* the field is the one declaration of its name and of its tag in its type
DeclaredOnce(schema, name, F) ==
    \A G \in DeclaredFields(schema, name) :
        G = F \/ (G.name # F.name /\ G.number # F.number)

\* the field is of a primitive type and has a default
PrimitiveWithDefault(F) ==
    /\ F.type_name = ""
    /\ typeNameById(F.type) \in VarintTypes \cup FixedTypes
    /\ ~F.packed
    /\ F.default_value # ""

\* the fields on the wire are what the type declares under their tags: an
\* embedded message where a message is declared, a varint where a number is
FieldsFit(schema, name, items) ==
    \A i \in DOMAIN items : \A G \in DeclaredFields(schema, name) :
        G.number = items[i].tag =>
            IF items[i].kind = "msg" THEN typeNameById(G.type) = "message"
            ELSE typeNameById(G.type) \in {"int32", "bool", "enum"}

\* node[F] is the default of F, for every primitive field F of the type of
\* the message that has a default and is not among the fields on the wire
DefaultsYielded(message, schema, name, items) ==
    \A F \in DeclaredFields(schema, name) :
        (/\ PrimitiveWithDefault(F) /\ DeclaredOnce(schema, name, F)
         /\ F.number \notin TagsOf(items))
            => MessageAt(message, F.name) =
                  <<ProtoValue(typeNameById(F.type),
                               valueFromString(typeNameById(F.type),
                                               F.default_value).value)>>

\* the embedded messages of a parsed message with the type their field
\* declares and the fields they had on the wire
EmbeddedNodes ==
    {[message |-> MessageAt(parser.root, G.name)[1], name |-> G.type_name,
      items |-> parser.items[i].items] :
        <<i, G>> \in {p \in (DOMAIN parser.items)
                            \X DeclaredFields(parser.schema, parser.schema.msg) :
                        /\ parser.items[p[1]].kind = "msg"
                        /\ p[2].number = parser.items[p[1]].tag
                        /\ typeNameById(p[2].type) = "message"
                        /\ DeclaredOnce(parser.schema, parser.schema.msg, p[2])}}

\* C19: after a message has been parsed, every message read, the root and
\* the embedded ones, yields under the name of a primitive field with a
\* declared default that was not on the wire the one value the default is
C19_AbsentFieldYieldsDefault ==
    (/\ parser.stage = "parsed" /\ parser.s.status = "ok"
     /\ FieldsFit(parser.schema, parser.schema.msg, parser.items))
        => /\ DefaultsYielded(parser.root, parser.schema, parser.schema.msg,
                              parser.items)
           /\ \A e \in EmbeddedNodes :
                 FieldsFit(parser.schema, e.name, e.items) =>
                    DefaultsYielded(e.message, parser.schema, e.name, e.items)

----------------------------------------------------------------------------
(* Properties of the binary reader (SpecParse) *)

\* C16: every read of an embedded message whose length L was read, the
\* payload starting at p, has ended in an error or with the stream at p + L,
\* also where the stream ends before p + L and where a field goes past p + L
C16_EmbeddedReadEndsAtDeclaredEnd ==
    parser.stage = "parsed" =>
        \A i \in DOMAIN parser.s.reads :
            parser.s.reads[i].p >= 0 =>
                \/ parser.s.reads[i].status = "error"
                \/ parser.s.reads[i].pos = parser.s.reads[i].p + parser.s.reads[i].L

\* the tag of the field on the wire is in no message type of the schemas
UnknownTag(item) == item.tag \in {15, BigTag}

KnownTag(item) == ~UnknownTag(item)

\* the message without its fields of unknown tag, the lengths of the
\* embedded messages following
KnownOnly(items) ==
    Let(SelectSeq(items, KnownTag), LAMBDA kept :
      [i \in DOMAIN kept |->
          IF kept[i].kind = "msg"
          THEN [kept[i] EXCEPT !.items = SelectSeq(@, KnownTag)]
          ELSE kept[i]])

\* the stream is the whole message and every embedded message has the length
\* of its fields
WholeMessage ==
    /\ parser.cut = 0
    /\ \A i \in DOMAIN parser.items :
          parser.items[i].kind = "msg" =>
             DeclaredLength(parser.items[i]) = Len(EncodeLeaves(parser.items[i].items))

\* the root message after it has read the message without the unknown fields
ParsedWithoutUnknown(ub) ==
    ReadMessage(IStream(Encode(KnownOnly(parser.items))), parser.message, ub)

\* C14: a message that parses without its fields of unknown tag (of wire type
\* 0, 1, 2 or 5, at any place among the fields of the message or of an
\* embedded message) parses with them, and the fields read (names, instances
\* in their order, values) are the same
C14_UnknownFieldsAreSkipped ==
    (parser.stage = "parsed" /\ WholeMessage) =>
        \A ub \in ParserUB :
            ParsedWithoutUnknown(ub).s.status = "ok" =>
                /\ parser.s.status = "ok"
                /\ parser.root.readFields = ParsedWithoutUnknown(ub).field.readFields

----------------------------------------------------------------------------
(* Properties of the prototypes of the compiled schema (SpecSchema) *)

\* C30: in the compiled root message the prototype of every field of a
\* message type has, in its table of fields by name, exactly the names the
\* descriptor of that type declares, also where the type is the one being
\* built or closes a cycle
C30_PrototypeHasDeclaredFields ==
    (parser.stage = "compiled" /\ parser.status = "ok") =>
        \A G \in DeclaredFields(parser.schema, parser.schema.msg) :
            (/\ typeNameById(G.type) = "message"
             /\ DeclaredOnce(parser.schema, parser.schema.msg, G))
                => DOMAIN parser.message.fieldByName[G.name].fieldByName =
                      {F.name : F \in DeclaredFields(parser.schema, G.type_name)}

----------------------------------------------------------------------------
(* Properties of has and remove (SpecSchema) *)

\* the message has and remove of the parser act on
RootMessage == IF parser.stage = "compiled" THEN parser.message ELSE parser.root

\* the instances of the field the message holds
Instances(message, name) ==
    IF name \in DOMAIN message.readFields THEN message.readFields[name] ELSE <<>>

\* C23: has(name) is true exactly when the message holds an instance of the
\* field, read by the last parse and not removed since: it is false for
\* every name before a parse, false for a field that was not in the input,
\* and false after remove has taken the last instance
C23_HasIffInstancePresent ==
    (\/ parser.stage = "compiled" /\ parser.status = "ok"
     \/ parser.stage \in {"parsed", "removed"})
        => \A name \in FieldNames :
              has(RootMessage, name) <=> Instances(RootMessage, name) # <<>>

----------------------------------------------------------------------------
(* The text format (protobuf_parser.cpp, proto_message.cpp): a document is *)
(* a sequence of characters, a token a string                              *)

\* removeProtoComments: the loop from character i on
RECURSIVE RemoveCommentsLoop(_, _, _, _)
RemoveCommentsLoop(str, i, isComment, res) ==
    IF i > Len(str) THEN res
    ELSE IF str[i] = "#" THEN RemoveCommentsLoop(str, i + 1, TRUE, res)
    ELSE IF isComment THEN RemoveCommentsLoop(str, i + 1, str[i] # "\n", res)
    ELSE RemoveCommentsLoop(str, i + 1, FALSE, Append(res, str[i]))

removeProtoComments(str) == RemoveCommentsLoop(str, 1, FALSE, <<>>)

\* tokenize: the loop from character i on, and the token left at the end
RECURSIVE TokenizeLoop(_, _, _, _)
TokenizeLoop(str, i, token, tokens) ==
    IF i > Len(str) THEN (IF token # "" THEN Append(tokens, token) ELSE tokens)
    ELSE IF str[i] \in {" ", "\t", "\r", "\n", ":", "\"", ";"}
    THEN TokenizeLoop(str, i + 1, "",
                      IF token # "" THEN Append(tokens, token) ELSE tokens)
    ELSE IF str[i] \in {"{", "}"}
    THEN TokenizeLoop(str, i + 1, "",
                      Append(IF token # "" THEN Append(tokens, token) ELSE tokens,
                             str[i]))
    ELSE TokenizeLoop(str, i + 1, token \o str[i], tokens)

tokenize(str) == TokenizeLoop(str, 1, "", <<>>)

\* what *tokenIt gives at the end of the tokens, which is undefined: the
\* process stops, or some token is read
TextUB == {[crash |-> TRUE, token |-> ""], [crash |-> FALSE, token |-> "}"],
           [crash |-> FALSE, token |-> "x"]}

\* the token iterator: the tokens, the index of *tokenIt, and the status
TokenIt(tokens) == [tokens |-> tokens, i |-> 1, status |-> "ok"]

\* *tokenIt
TokenAt(it, ub) ==
    IF it.i <= Len(it.tokens) THEN it.tokens[it.i] ELSE ub.token

\* the iterator after *tokenIt was read
Derefed(it, ub) ==
    IF it.status = "ok" /\ it.i > Len(it.tokens) /\ ub.crash
    THEN [it EXCEPT !.status = "crash"] ELSE it

\* ++tokenIt
NextToken(it) == [it EXCEPT !.i = @ + 1]

\* ProtoValue<T>::read(tokenIt), ProtoPackImpl<T>::read(tokenIt); an enum is
\* read as the string it is
ReadTextValue(it, field, ub) ==
    Let(Derefed(it, ub), LAMBDA it1 :
      IF it1.status # "ok" THEN [it |-> it1, field |-> field]
      ELSE IF field.kind = "enum"
      THEN [it |-> NextToken(it1), field |-> [field EXCEPT !.value = TokenAt(it, ub)]]
      ELSE Let(valueFromString(field.type, TokenAt(it, ub)), LAMBDA v :
             IF v.status # "ok"
             THEN [it |-> [it1 EXCEPT !.status = "error"], field |-> field]
             ELSE IF field.kind = "pack"
             THEN [it |-> NextToken(it1), field |-> [field EXCEPT !.values = <<v.value>>]]
             ELSE [it |-> NextToken(it1), field |-> [field EXCEPT !.value = v.value]]))

RECURSIVE ReadTextLoop(_, _, _)
RECURSIVE ReadTextMessage(_, _, _)

\* copy->read(tokenIt) by the class of the field
ReadTextField(it, field, ub) ==
    IF field.kind = "message" THEN ReadTextMessage(it, field, ub)
    ELSE ReadTextValue(it, field, ub)

\* the loop of ProtobufMessage::read(tokenIt) and the closing bracket
ReadTextLoop(it, message, ub) ==
    IF it.status # "ok" THEN [it |-> it, field |-> message]
    ELSE Let(Derefed(it, ub), LAMBDA it1 :
      IF it1.status # "ok" THEN [it |-> it1, field |-> message]
      ELSE IF TokenAt(it, ub) = "}" THEN [it |-> NextToken(it1), field |-> message]
      ELSE IF TokenAt(it, ub) \notin DOMAIN message.fieldByName
      THEN [it |-> [NextToken(it1) EXCEPT !.status = "error"], field |-> message]
      ELSE Let(ReadTextField(NextToken(it1),
                             clone(message.fieldByName[TokenAt(it, ub)]), ub),
               LAMBDA r :
                 ReadTextLoop(r.it, PushField(message, TokenAt(it, ub), r.field), ub)))

\* ProtobufMessage::read(std::vector<std::string>::iterator&)
ReadTextMessage(it, message, ub) ==
    IF it.status # "ok" THEN [it |-> it, field |-> message]
    ELSE Let(Derefed(it, ub), LAMBDA it1 :
      IF it1.status # "ok"
      THEN [it |-> it1, field |-> [message EXCEPT !.readFields = <<>>]]
      ELSE IF TokenAt(it, ub) # "{"
      THEN [it |-> [it1 EXCEPT !.status = "error"],
            field |-> [message EXCEPT !.readFields = <<>>]]
      ELSE ReadTextLoop(NextToken(it1), [message EXCEPT !.readFields = <<>>], ub))

\* ProtobufParser::parse(filePath, true) on the content of the file:
\* [tokens, it, field]
ParseText(content, message, ub) ==
    Let(tokenize(removeProtoComments(<<"{">> \o content \o <<"}">>)), LAMBDA tokens :
    Let(ReadTextMessage(TokenIt(tokens), message, ub), LAMBDA r :
      [tokens |-> tokens, it |-> r.it, field |-> r.field]))

----------------------------------------------------------------------------
(* The text parser as a state machine: a document is put together piece by *)
(* piece and parsed by the root message of a schema                        *)

MaxPieces == 4

\* message A { optional int32 n = 1; repeated string s = 2; optional M m = 3; }
\* message M { optional int32 n = 1; }
TextSchema ==
    [msg |-> ".A", proto3 |-> FALSE,
     typeNodes |->
        ".A" :> MessageNode(<<FieldNode("n", 1, 5, 1, "", "", FALSE),
                              FieldNode("s", 2, 9, 3, "", "", FALSE),
                              FieldNode("m", 3, 11, 1, ".M", "", FALSE)>>)
     @@ ".M" :> MessageNode(<<FieldNode("n", 1, 5, 1, "", "", FALSE)>>)]

\* a piece of a document: its characters; for a string field the characters
\* between the quotes as a string
Piece(kind, text, content) == [kind |-> kind, text |-> text, content |-> content]

\* s: "..." with the characters of the content between the quotes
StringPiece(chars, content) ==
    Piece("string", <<"s", ":", " ", "\"">> \o chars \o <<"\"", " ">>, content)

Pieces ==
    {Piece("int", <<"n", ":", " ", "1", " ">>, ""),
     StringPiece(<<>>, ""), StringPiece(<<"x">>, "x"),
     StringPiece(<<"x", " ", "y">>, "x y"),
     StringPiece(<<"x", ":", "y">>, "x:y"),
     StringPiece(<<"x", ";", "y">>, "x;y"),
     Piece("msg", <<"m", " ", "{", " ", "n", ":", " ", "1", " ", "}", " ">>, ""),
     Piece("space", <<"\n">>, ""),
     Piece("comment", <<"#", " ", "c", "\n">>, ""),
     Piece("comment", <<"#", " ", "c">>, "")}

\* the characters of the pieces, one after the other
RECURSIVE TextOf(_)
TextOf(pieces) ==
    IF pieces = <<>> THEN <<>> ELSE Head(pieces).text \o TextOf(Tail(pieces))

\* one more piece at the end of the document
AddPiece ==
    /\ parser.stage = "text"
    /\ Len(parser.pieces) < MaxPieces
    /\ \E piece \in Pieces : parser' = [parser EXCEPT !.pieces = Append(@, piece)]
    /\ UNCHANGED netVars

\* ProtobufParser::parse(filePath, true)
ParseTextFile ==
    /\ parser.stage = "text"
    /\ \E ub \in TextUB :
       \E r \in {ParseText(TextOf(parser.pieces), parser.message, ub)} :
          parser' = [stage |-> "textParsed", message |-> parser.message,
                     pieces |-> parser.pieces, ub |-> ub, tokens |-> r.tokens,
                     status |-> r.it.status, root |-> r.field]
    /\ UNCHANGED netVars

InitText ==
    /\ impl = NewImpl
    /\ ret = [op |-> "Net", args |-> <<>>, status |-> "ok", value |-> 0]
    /\ calls = 0
    /\ addedIds = <<>>
    /\ rootModule = <<>>
    /\ importer = NoImporter
    /\ parser = [stage |-> "text", pieces |-> <<>>,
                 message |-> buildMessage(TextSchema.msg, TextSchema.typeNodes, <<>>,
                                          TextSchema.proto3).field]

NextText == AddPiece \/ ParseTextFile

SpecText == InitText /\ [][NextText]_vars

----------------------------------------------------------------------------
(* Properties of the text parser (SpecText) *)

\* the document with every comment deleted, from its # to the end of its line
WithoutComments(pieces) ==
    [i \in DOMAIN pieces |->
        IF pieces[i].kind = "comment"
        THEN Piece("space",
                   IF pieces[i].text[Len(pieces[i].text)] = "\n" THEN <<"\n">> ELSE <<>>,
                   "")
        ELSE pieces[i]]

\* C21: the tokens handed to the root message start with { and end with },
\* and the result of the parse, its status and the fields read, is that of
\* the document with its comments deleted, also where the last line is a
\* comment with no newline after it
C21_CommentsAreStripped ==
    parser.stage = "textParsed" =>
        /\ parser.tokens # <<>>
        /\ parser.tokens[1] = "{"
        /\ parser.tokens[Len(parser.tokens)] = "}"
        /\ parser.status =
              ParseText(TextOf(WithoutComments(parser.pieces)), parser.message,
                        parser.ub).it.status
        /\ parser.root.readFields =
              ParseText(TextOf(WithoutComments(parser.pieces)), parser.message,
                        parser.ub).field.readFields

IsStringPiece(piece) == piece.kind = "string"

IsIntPiece(piece) == piece.kind = "int"

\* C22: in a document of fields n: 1 and s: "..." every quoted string is read
\* as one value of s, the characters between the quotes, the empty string
\* and strings with a space, a colon or a semicolon among them, and what
\* follows the closing quote is read as the next field
C22_QuotedStringIsOneValue ==
    (/\ parser.stage = "textParsed"
     /\ \A i \in DOMAIN parser.pieces :
           parser.pieces[i].kind \in {"int", "string", "space"})
        => /\ parser.status = "ok"
           /\ Instances(parser.root, "s") =
                 [k \in DOMAIN SelectSeq(parser.pieces, IsStringPiece) |->
                     ProtoValue("string",
                                SelectSeq(parser.pieces, IsStringPiece)[k].content)]
           /\ Len(Instances(parser.root, "n")) =
                 Len(SelectSeq(parser.pieces, IsIntPiece))

----------------------------------------------------------------------------
(* Properties of the allocation pass (SpecPass) *)

\* allocate() has just run an allocation pass to its end
PassDone == ret.op = "allocate" /\ ret.status = "ok" /\ ret.value # <<>>

\* the positions of an event in the log of a pass
Positions(log, ev) == {k \in DOMAIN log : log[k] = ev}

\* C24: in one allocation pass over an acyclic graph finalize is invoked
\* exactly once on every layer, after the finalize of every producer of one of
\* its input pins and after its own input pointers were bound to the outputs
\* its pins name, and when the pass ends the flag of every layer is 1
C24_AllocationPassOrder ==
    (PassDone /\ Acyclic(impl)) =>
        /\ \A k \in DOMAIN ret.value : ret.value[k][2] \in DOMAIN impl.layers
        /\ \A L \in DOMAIN impl.layers :
              /\ Cardinality(Positions(ret.value, <<"finalize", L>>)) = 1
              /\ \A f \in Positions(ret.value, <<"finalize", L>>) :
                    /\ \A P \in Producers(impl, L) :
                          \E p \in Positions(ret.value, <<"finalize", P>>) : p < f
                    /\ \E b \in Positions(ret.value, <<"bind", L>>) : b < f
              /\ impl.layers[L].inputBlobs = impl.layers[L].inputBlobsId
              /\ impl.layers[L].flag = 1

\* a pass has run on a graph where a layer takes its input from a layer added
\* after it, and another layer has two producers
C24_Witness ==
    /\ PassDone /\ Acyclic(impl)
    /\ \E L \in DOMAIN impl.layers : \E P \in Producers(impl, L) : P > L
    /\ \E L \in DOMAIN impl.layers : Cardinality(Producers(impl, L)) = 2

----------------------------------------------------------------------------
(* Properties of the forward pass (SpecPass) *)

\* the layers a forward call to toLayer has to run: all of them for the empty
\* name, the target and its ancestors otherwise
ToRun(n, toLayer) ==
    IF toLayer.isString /\ toLayer.str = <<>> THEN DOMAIN n.layers
    ELSE Upstream(n, {LayerIdOf(n, toLayer)})

\* order runs every layer of S once, each after its producers, and no other
RunsOnceInOrder(n, order, S) ==
    /\ Range(order) = S
    /\ Len(order) = Cardinality(S)
    /\ \A i \in DOMAIN order : \A P \in Producers(n, order[i]) :
          \E j \in 1..(i - 1) : order[j] = P

\* C25: a forward call on an allocated acyclic network invokes forward exactly
\* once on the target and on every ancestor of it (on every layer when all
\* layers are asked for), on no other layer, and on each layer after all its
\* producers; the flags of the layers run, and no others, are 1 afterwards;
\* a second forward call to the same target runs the same layers again
C25_ForwardRunsAncestorsOnce ==
    [][(ret'.op = "forward" /\ ret'.status = "ok" /\ Acyclic(impl'))
        => /\ RunsOnceInOrder(impl', ret'.value, ToRun(impl', ret'.args[1]))
           /\ \A L \in DOMAIN impl'.layers :
                 impl'.layers[L].flag = 1 <=> L \in Range(ret'.value)
           /\ (ret.op = "forward" /\ ret.status = "ok" /\ ret.args = ret'.args)
                 => ret'.value = ret.value]_vars

\* a forward call to a layer with an ancestor has left another layer out
C25_Witness ==
    /\ ret.op = "forward" /\ ret.status = "ok" /\ Acyclic(impl)
    /\ ~ret.args[1].isString
    /\ Len(ret.value) = 2
    /\ Cardinality(DOMAIN impl.layers) = 3

----------------------------------------------------------------------------
(* Properties of setBlob (SpecPass) *)

\* the shape stored at the pin, empty when the layer has no such output yet
StoredShape(n, pin) ==
    IF PinInBounds(n, pin) THEN shape(n.layers[pin.lid].outputBlobs[pin.oid + 1])
    ELSE <<>>

\* C26: setBlob stores a copy of the tensor, with storage of its own, as the
\* output of the pin the alias names; where the shape differs from the one
\* stored at the pin before, the network is not allocated afterwards (and the
\* next allocate runs an allocation pass), where it is equal the allocated
\* status stays as it was; a network that is not allocated stays so
C26_SetBlobMarksShapeChange ==
    [][/\ (ret'.op = "setBlob" /\ ret'.status = "ok") =>
             LET pin == getPinByAlias(impl, ret'.args[1]).value
                 stored == impl'.layers[pin.lid].outputBlobs[pin.oid + 1]
             IN /\ shape(stored) = ret'.args[2]
                /\ stored.data \notin UsedData(impl) \cup {0}
                /\ StoredShape(impl, pin) # ret'.args[2] => ~impl'.netWasAllocated
                /\ StoredShape(impl, pin) = ret'.args[2]
                      => impl'.netWasAllocated = impl.netWasAllocated
                /\ ~impl.netWasAllocated => ~impl'.netWasAllocated
       /\ (ret'.op = "allocate" /\ ret'.status = "ok") =>
             (ret'.value # <<>> <=> ~impl.netWasAllocated)]_vars

\* setBlob with another shape has taken the allocated status from a network
\* that was set up before
C26_Witness ==
    /\ ret.op = "setBlob" /\ ret.status = "ok"
    /\ impl.netOutputs # <<>>
    /\ ~impl.netWasAllocated
    /\ Cardinality(DOMAIN impl.layers) = 3

----------------------------------------------------------------------------
(* Properties of the allocation of the outputs (SpecPass) *)

\* the number of outputs shape inference gives layer P: max(requiredOutputs,
\* inputs), the inputs of layer 0 being the tensors set on the network input
OutputCount(n, P) ==
    Max(Cardinality(n.layers[P].requiredOutputs),
        IF P = 0 THEN Len(n.layers[0].outputBlobs) ELSE Len(n.layers[P].inputBlobsId))

\* nothing but the allocation of the outputs is left to fail: the network
\* inputs are set, the graph is acyclic, every layer has inputs, and every pin
\* names an output its producer is given
ReadyToAllocate(n) ==
    /\ ~n.netWasAllocated
    /\ Acyclic(n)
    /\ n.layers[0].outputBlobs # <<>>
    /\ \A i \in DOMAIN n.layers[0].outputBlobs : total(shape(n.layers[0].outputBlobs[i])) > 0
    /\ \A L \in DOMAIN n.layers \ {0} :
          /\ n.layers[L].inputBlobsId # <<>>
          /\ \A i \in DOMAIN n.layers[L].inputBlobsId :
                LET pin == n.layers[L].inputBlobsId[i]
                IN valid(pin) /\ hasLayer(n, pin.lid) /\ pin.oid < OutputCount(n, pin.lid)

\* the shape recorded for output i of layer L, empty when there is none
RecordedShape(n, L, i) ==
    IF i \in DOMAIN n.layers[L].outputBlobs THEN shape(n.layers[L].outputBlobs[i])
    ELSE <<>>

\* output i of L is to share the storage of input i: the layer works in place
\* and input i has as many elements as the output
SharesInput(n, L, i) ==
    /\ n.layers[L].type \in InPlaceTypes
    /\ i \in DOMAIN n.layers[L].inputBlobsId
    /\ PinInBounds(n, n.layers[L].inputBlobsId[i])
    /\ LET pin == n.layers[L].inputBlobsId[i]
       IN total(shape(n.layers[pin.lid].outputBlobs[pin.oid + 1]))
             = total(shape(n.layers[L].outputBlobs[i]))

\* C27: an allocation pass with nothing else to fail on does not fail, and
\* every output whose recorded shape differed from the inferred one is a view
\* of input i (the storage of input i under the inferred shape) where the
\* layer declared inplace and input i has as many elements as the output, and
\* a fresh tensor in every other case, an in-place layer with another number
\* of inputs than outputs included
C27_AliasOrFreshTensor ==
    [][(ret'.op = "allocate" /\ ReadyToAllocate(impl))
        => /\ ret'.status = "ok"
           /\ \A L \in DOMAIN impl'.layers : \A i \in DOMAIN impl'.layers[L].outputBlobs :
                 RecordedShape(impl, L, i) # RecordedShape(impl', L, i) =>
                     LET out == impl'.layers[L].outputBlobs[i]
                     IN IF SharesInput(impl', L, i)
                        THEN LET pin == impl'.layers[L].inputBlobsId[i]
                             IN out.data = impl'.layers[pin.lid].outputBlobs[pin.oid + 1].data
                        ELSE out.data \notin UsedData(impl) \cup {0}]_vars

----------------------------------------------------------------------------
(* Properties of forward after changes of the graph (Spec) *)

\* what an allocation pass leaves in layer L: the instance, and an input
\* pointer for every input pin
IsAllocated(n, L) ==
    /\ n.layers[L].layerInstance
    /\ n.layers[L].inputBlobs = n.layers[L].inputBlobsId

\* C28: every layer a forward call has invoked forward on was allocated
\* before: its instance exists and its input pointers are bound, as the
\* allocation pass that calls finalize leaves them; also for layers added or
\* connected after the network was allocated
C28_ForwardOnlyOnAllocated ==
    (ret.op = "forward" /\ ret.status = "ok") =>
        \A L \in Range(ret.value) : IsAllocated(impl, L)

----------------------------------------------------------------------------
(* Properties of the network inputs (SpecPass) *)

\* C29: setUpNet leaves the tensors set on the network input as they are:
\* after allocate() or forward() has returned, every output of layer 0 the
\* caller had set has the shape and the storage it had before, whatever the
\* number of inputs and their shapes, so the shape inferred for output i of
\* layer 0 is the shape of the caller's input i
C29_NetInputsUnchanged ==
    [][(ret'.op \in {"allocate", "forward"} /\ ret'.status = "ok")
        => \A i \in DOMAIN impl.layers[0].outputBlobs :
              /\ i \in DOMAIN impl'.layers[0].outputBlobs
              /\ impl'.layers[0].outputBlobs[i] = impl.layers[0].outputBlobs[i]]_vars

====
